---- MODULE Spec2Model ----
(***************************************************************************)
(* State-machine model of the warehouse stock ledger (src/app.py, WMS      *)
(* handlers; src/models.py) and of the bank reconciliation matcher         *)
(* (src/bank_service.py; payment handlers of src/app.py).                  *)
(*                                                                         *)
(* Quantities are integers (the code uses floats); a weighted-average      *)
(* cost is an exact fraction [n, d] in lowest terms, so float rounding is  *)
(* not modelled.  celula_id = None is written NoCell (0): the handlers     *)
(* test `if celula_id:` and cell ids start at 1.                           *)
(***************************************************************************)
EXTENDS Integers, Sequences, FiniteSets, Bags, TLC

\* ---------------------------------------------------------------- bounds
MaxNir     == 1   \* NIR documents that nir_nou may create
MaxLinii   == 2   \* NIR lines over all documents
MaxVerif   == 2   \* verification entries over all NIR lines
MaxCant    == 2   \* largest quantity in a request or on a line
MaxMiscari == 3   \* rows of the movement ledger
MaxComenzi == 1   \* orders
MaxPick    == 1   \* picking documents
MaxMiscariPick == 4   \* rows of the movement ledger, picking specification
MaxCereri  == 2   \* picking fulfilments handled at the same time
MaxMiscariPrelua == 7   \* rows of the movement ledger, fulfilment specifications
MaxPickLivrare == 2   \* picking documents, delivery specification
MaxText    == 4   \* characters of a credit text drawn from the alphabet

NoCell  == 0
Celule  == {1, 2}
Locatii == {NoCell} \cup Celule
Coduri  == {"X", "Y"}

\* ------------------------------------------------------------ arithmetic
Abs(x) == IF x < 0 THEN -x ELSE x

RECURSIVE GCD(_, _)
GCD(a, b) == IF b = 0 THEN a ELSE GCD(b, a % b)

\* a fraction in lowest terms with positive denominator
Frac(n, d) ==
    LET g == GCD(Abs(n), Abs(d))
        s == IF d < 0 THEN -1 ELSE 1
    IN  [n |-> s * (n \div g), d |-> s * (d \div g)]

Pret(p) == [n |-> p, d |-> 1]

\* total_val / total_qty if total_qty else 0
MedieBug(q1, c1, q2, c2) ==
    IF q1 + q2 = 0 THEN Pret(0) ELSE c2

Medie(q1, c1, q2, c2) ==
    IF q1 + q2 = 0 THEN Pret(0)
    ELSE Frac(q1 * c1.n * c2.d + q2 * c2.n * c1.d, c1.d * c2.d * (q1 + q2))

\* ------------------------------------------------------------------ state
VARIABLES
    niruri,       \* table niruri with its linii_nir and verificari_nir
    stoc,         \* table stoc_produse, a bag of rows
    miscari,      \* table miscari_stoc, a bag of rows
    comenzi,      \* table comenzi with its linii_comanda
    pickings,     \* table pickings with its linii_picking
    note_livrare, \* table note_livrare
    facturi,      \* table facturi
    incasari,     \* table incasari
    lot,          \* the payments the last reconcile_batch run iterated over
    potrivire,    \* the value auto_match returned when applied on its own
    cereri,       \* the picking fulfilments in flight: what each request has read
    csv,          \* a statement file given to parse_bt_csv on its own, and the outcome
    raspuns       \* the last request: handler, HTTP status, error text

pickVars == <<comenzi, pickings, note_livrare>>
bankVars == <<facturi, incasari, lot, potrivire>>
vars == <<niruri, stoc, miscari, comenzi, pickings, note_livrare,
          facturi, incasari, lot, potrivire, cereri, csv, raspuns>>

\* a request worker that holds no picking fulfilment
Liber == [pc |-> "liber", pid |-> 0, lid |-> 0, cant |-> 0, celula_id |-> 0, citit |-> 0]

Raspuns(op, status, error) == [op |-> op, status |-> status, error |-> error]

\* ------------------------------------------------------------ stoc_produse
StocRows(s, cod, cel) ==
    {r \in BagToSet(s) : r.cod_intern = cod /\ r.celula_id = cel}

\* StocProdus.query.filter_by(cod_intern=cod, celula_id=cel).first()
HasStoc(s, cod, cel) == StocRows(s, cod, cel) # {}
StocFirst(s, cod, cel) == CHOOSE r \in StocRows(s, cod, cel) : TRUE

StocRow(cod, cel, q, c) ==
    [cod_intern |-> cod, celula_id |-> cel, cantitate |-> q, pret_achizitie_mediu |-> c]

BagAdd(b, r) == b (+) SetToBag({r})
BagDel(b, r) == b (-) SetToBag({r})
BagSetBug(b, old, new) == BagAdd(b, new)
BagSet(b, old, new) == BagAdd(BagDel(b, old), new)

\* the inbound merge shared by booking, verification and transfer
IntrareBug(s, cod, cel, q, c) == BagAdd(s, StocRow(cod, cel, q, c))

Intrare(s, cod, cel, q, c) ==
    IF HasStoc(s, cod, cel)
    THEN LET r == StocFirst(s, cod, cel)
         IN  BagSet(s, r, StocRow(cod, cel, r.cantitate + q,
                                  Medie(r.cantitate, r.pret_achizitie_mediu, q, c)))
    ELSE BagAdd(s, StocRow(cod, cel, q, c))

Miscare(tip, cod, q, cel, dest, nir, cmd) ==
    [tip |-> tip, cod_produs |-> cod, cantitate |-> q, celula_id |-> cel,
     celula_destinatie_id |-> dest, nir_id |-> nir, comanda_id |-> cmd]

\* --------------------------------------------------------------- NIR model
LinieNIR(cod, q, p) ==
    [cod_intern |-> cod, cantitate |-> q, pret_achizitie |-> p, verificari |-> <<>>]

\* the line contents that nir_nou is given: cantitate = float(form or 1) and
\* pret_achizitie = float(form or 0) are stored as submitted, unvalidated
FormeLinie ==
    {LinieNIR("X", MaxCant, 1), LinieNIR("X", 1, 3), LinieNIR("Y", 1, 3),
     LinieNIR("X", 0, 1), LinieNIR("X", -1, 1)}

RECURSIVE SumaVerif(_)
SumaVerif(vs) == IF vs = <<>> THEN 0 ELSE Head(vs).cantitate + SumaVerif(Tail(vs))

\* LinieNIR.cantitate_verificata, LinieNIR.verificat_complet
cantitate_verificata(l) == SumaVerif(l.verificari)
verificat_completBug(l) == cantitate_verificata(l) > 0
verificat_complet(l) == cantitate_verificata(l) >= l.cantitate

\* NIR.progres_verificare
progres_verificare(nir) ==
    LET total == Len(nir.linii)
    IN  IF total = 0 THEN <<0, 0>>
        ELSE <<Cardinality({i \in 1..total : verificat_complet(nir.linii[i])}), total>>

RECURSIVE NrLinii(_)
NrLinii(ns) == IF ns = <<>> THEN 0 ELSE Len(Head(ns).linii) + NrLinii(Tail(ns))

RECURSIVE NrVerifLinii(_)
NrVerifLinii(ls) == IF ls = <<>> THEN 0 ELSE Len(Head(ls).verificari) + NrVerifLinii(Tail(ls))
RECURSIVE NrVerif(_)
NrVerif(ns) == IF ns = <<>> THEN 0 ELSE NrVerifLinii(Head(ns).linii) + NrVerif(Tail(ns))

\* POST /admin/wms/nir/nou
nir_nou(linii) ==
    /\ niruri' = Append(niruri, [status |-> "scriptic", linii |-> linii])
    /\ raspuns' = Raspuns("nir_nou", 302, "")
    /\ UNCHANGED <<cereri, csv, stoc, miscari, pickVars, bankVars>>

\* the loop of api_nir_confirma over nir.linii, from line i on
RECURSIVE ConfirmaStoc(_, _, _)
ConfirmaStoc(s, linii, i) ==
    IF i > Len(linii) THEN s
    ELSE LET l == linii[i]
         IN  ConfirmaStoc(Intrare(s, l.cod_intern, NoCell, l.cantitate, Pret(l.pret_achizitie)),
                          linii, i + 1)

RECURSIVE ConfirmaMiscari(_, _, _, _)
ConfirmaMiscari(m, nid, linii, i) ==
    IF i > Len(linii) THEN m
    ELSE LET l == linii[i]
         IN  ConfirmaMiscari(BagAdd(m, Miscare("intrare_nir", l.cod_intern, l.cantitate,
                                               NoCell, NoCell, nid, 0)),
                             nid, linii, i + 1)

\* if nir.status not in ('draft', 'scriptic')
NirProcesatBug(nir) == FALSE

NirProcesat(nir) == nir.status \notin {"draft", "scriptic"}

\* POST /api/wms/nir/<nid>/confirma-scriptic
api_nir_confirma(nid) ==
    /\ nid \in 1 .. Len(niruri)
    /\ IF NirProcesat(niruri[nid])
       THEN /\ raspuns' = Raspuns("nir_confirma", 400, "NIR deja procesat")
            /\ UNCHANGED <<niruri, stoc, miscari>>
       ELSE /\ stoc' = ConfirmaStoc(stoc, niruri[nid].linii, 1)
            /\ miscari' = ConfirmaMiscari(miscari, nid, niruri[nid].linii, 1)
            /\ niruri' = [niruri EXCEPT ![nid].status = "in_verificare"]
            /\ raspuns' = Raspuns("nir_confirma", 200, "")
    /\ UNCHANGED <<cereri, csv, pickVars, bankVars>>

\* the stock part of api_nir_linie_verifica, taken when a cell is given
VerificaStoc(s, l, cant, celula_id) ==
    LET cod == l.cod_intern
        s1  == IF HasStoc(s, cod, NoCell)
               THEN LET r == StocFirst(s, cod, NoCell)
                        q == IF r.cantitate - cant > 0 THEN r.cantitate - cant ELSE 0
                    IN  IF q = 0 THEN BagDel(s, r)
                        ELSE BagSet(s, r, [r EXCEPT !.cantitate = q])
               ELSE s
    IN  Intrare(s1, cod, celula_id, cant, Pret(l.pret_achizitie))

\* v, t = nir.progres_verificare; if v >= t: nir.status = 'verificat'
VerificaStatus(nir) ==
    LET p == progres_verificare(nir)
    IN  IF p[1] >= p[2] THEN [nir EXCEPT !.status = "verificat"] ELSE nir

\* if l.nir.status not in ('in_verificare',)
NuInVerificareBug(nir) == FALSE

NuInVerificare(nir) == nir.status \notin {"in_verificare"}

\* POST /api/wms/nir/linie/<lid>/verifica
api_nir_linie_verifica(nid, lid, cant, celula_id) ==
    /\ nid \in 1 .. Len(niruri)
    /\ lid \in 1 .. Len(niruri[nid].linii)
    /\ LET l == niruri[nid].linii[lid]
       IN  IF NuInVerificare(niruri[nid])
           THEN /\ raspuns' = Raspuns("nir_linie_verifica", 400, "NIR-ul nu este in verificare fizica")
                /\ UNCHANGED <<niruri, stoc>>
           ELSE IF cant <= 0
           THEN /\ raspuns' = Raspuns("nir_linie_verifica", 400, "Cantitatea trebuie sa fie > 0")
                /\ UNCHANGED <<niruri, stoc>>
           ELSE /\ stoc' = IF celula_id # NoCell THEN VerificaStoc(stoc, l, cant, celula_id)
                           ELSE stoc
                /\ niruri' = [niruri EXCEPT ![nid] =
                       VerificaStatus([@ EXCEPT !.linii[lid].verificari =
                           Append(@, [cantitate |-> cant, celula_id |-> celula_id])])]
                /\ raspuns' = Raspuns("nir_linie_verifica", 200, "")
    /\ UNCHANGED <<cereri, csv, miscari, pickVars, bankVars>>

\* if not stoc_sursa or stoc_sursa.cantitate < cant
TransferInsuficientBug(s, cod, sursa_id, cant) ==
    ~HasStoc(s, cod, sursa_id)

TransferInsuficient(s, cod, sursa_id, cant) ==
    \/ ~HasStoc(s, cod, sursa_id)
    \/ StocFirst(s, cod, sursa_id).cantitate < cant

\* POST /api/wms/transfer
api_wms_transfer(cod, sursa_id, dest_id, cant) ==
    /\ LET respins(e) == /\ raspuns' = Raspuns("wms_transfer", 400, e)
                         /\ UNCHANGED <<stoc, miscari>>
       IN  IF cod = "" \/ cant <= 0 THEN respins("Date invalide")
           ELSE IF sursa_id = dest_id
           THEN respins("Sursa si destinatia nu pot fi aceeasi celula")
           ELSE IF TransferInsuficient(stoc, cod, sursa_id, cant)
           THEN respins("Stoc insuficient")
           ELSE LET stoc_sursa == StocFirst(stoc, cod, sursa_id)
                    q  == stoc_sursa.cantitate - cant
                    s1 == IF q = 0 THEN BagDel(stoc, stoc_sursa)
                          ELSE BagSet(stoc, stoc_sursa, [stoc_sursa EXCEPT !.cantitate = q])
                IN  /\ stoc' = Intrare(s1, cod, dest_id, cant, stoc_sursa.pret_achizitie_mediu)
                    /\ miscari' = BagAdd(miscari, Miscare("transfer", cod, cant,
                                                          sursa_id, dest_id, 0, 0))
                    /\ raspuns' = Raspuns("wms_transfer", 200, "")
    /\ UNCHANGED <<cereri, csv, niruri, pickVars, bankVars>>

\* the loop of api_wms_remap_cod over the rows of cod_vechi
RemapStocBug(s, rows, cod_nou) ==
    [r \in {x \in BagToSet(s) : x \notin rows} |-> s[r]]
       (+) SetToBag({[r EXCEPT !.cod_intern = cod_nou] : r \in rows})

RECURSIVE RemapStoc(_, _, _)
RemapStoc(s, rows, cod_nou) ==
    IF rows = {} THEN s
    ELSE LET r == CHOOSE x \in rows : TRUE
             s1 == IF HasStoc(s, cod_nou, r.celula_id)
                   THEN LET existing == StocFirst(s, cod_nou, r.celula_id)
                        IN  BagDel(BagSet(s, existing,
                                [existing EXCEPT !.cantitate = @ + r.cantitate]), r)
                   ELSE BagSet(s, r, [r EXCEPT !.cod_intern = cod_nou])
         IN  RemapStoc(s1, rows \ {r}, cod_nou)

\* MiscareStoc.query.filter_by(cod_produs=cod_vechi).update({cod_produs: cod_nou})
RemapMiscari(b, cod_vechi, cod_nou) ==
    LET ren(m) == IF m.cod_produs = cod_vechi THEN [m EXCEPT !.cod_produs = cod_nou] ELSE m
        img    == {ren(r) : r \in BagToSet(b)}
    IN  [x \in img |-> BagCardinality([r \in {y \in BagToSet(b) : ren(y) = x} |-> b[r]])]

\* POST /api/wms/remap-cod
api_wms_remap_cod(cod_vechi, cod_nou) ==
    /\ LET Ren(c) == IF c = cod_vechi THEN cod_nou ELSE c
       IN  IF cod_vechi = "" \/ cod_nou = ""
           THEN /\ raspuns' = Raspuns("wms_remap_cod", 400, "Ambele coduri sunt obligatorii")
                /\ UNCHANGED <<niruri, stoc, miscari>>
           ELSE IF cod_vechi = cod_nou
           THEN /\ raspuns' = Raspuns("wms_remap_cod", 400, "Codurile sunt identice")
                /\ UNCHANGED <<niruri, stoc, miscari>>
           ELSE /\ stoc' = RemapStoc(stoc, {r \in BagToSet(stoc) : r.cod_intern = cod_vechi},
                                     cod_nou)
                /\ niruri' = [n \in DOMAIN niruri |-> [niruri[n] EXCEPT !.linii =
                                 [i \in DOMAIN @ |-> [@[i] EXCEPT !.cod_intern = Ren(@)]]]]
                /\ miscari' = RemapMiscari(miscari, cod_vechi, cod_nou)
                /\ raspuns' = Raspuns("wms_remap_cod", 200, "")
    /\ UNCHANGED <<cereri, csv, pickVars, bankVars>>

\* ------------------------------------------------------------------- text
\* A Python str is a sequence of one-character strings.
Majuscule == <<"A","B","C","D","E","F","G","H","I","J","K","L","M",
               "N","O","P","Q","R","S","T","U","V","W","X","Y","Z">>
Minuscule == <<"a","b","c","d","e","f","g","h","i","j","k","l","m",
               "n","o","p","q","r","s","t","u","v","w","x","y","z">>
Cifre     == <<"0","1","2","3","4","5","6","7","8","9">>

Range(s) == {s[i] : i \in DOMAIN s}
Litere   == Range(Majuscule) \cup Range(Minuscule)
CifreSet == Range(Cifre)

\* str.lower() / str.upper()
LowerMap == [c \in Range(Majuscule) |-> Minuscule[CHOOSE i \in 1 .. 26 : Majuscule[i] = c]]
UpperMap == [c \in Range(Minuscule) |-> Majuscule[CHOOSE i \in 1 .. 26 : Minuscule[i] = c]]
lower(s) == [i \in 1 .. Len(s) |-> IF s[i] \in DOMAIN LowerMap THEN LowerMap[s[i]] ELSE s[i]]
upper(s) == [i \in 1 .. Len(s) |-> IF s[i] \in DOMAIN UpperMap THEN UpperMap[s[i]] ELSE s[i]]

\* s[i:] and the test "the lower-case word w is at position i of s, ignoring
\* case"
From(s, i) == SubSeq(s, i, Len(s))
LitAt(s, i, w) ==
    /\ i >= 1
    /\ i + Len(w) - 1 <= Len(s)
    /\ \A k \in 1 .. Len(w) :
           LET c == s[i + k - 1]
           IN  (IF c \in DOMAIN LowerMap THEN LowerMap[c] ELSE c) = w[k]

\* a in b (substring test)
IsSubstr(a, b) == \E i \in 1 .. Len(b) + 1 : i + Len(a) - 1 <= Len(b) /\ SubSeq(b, i, i + Len(a) - 1) = a

\* str.startswith
StartsWith(s, w) == Len(w) <= Len(s) /\ SubSeq(s, 1, Len(w)) = w

\* the index after the longest run of characters of class cls starting at i
RECURSIVE SkipClass(_, _, _)
SkipClass(s, i, cls) ==
    IF i <= Len(s) /\ s[i] \in cls THEN SkipClass(s, i + 1, cls) ELSE i

\* a run of at least n consecutive letters occurs in s ([A-Z]{n,}, IGNORECASE)
HasLetters(s, n) ==
    \E i \in 1 .. Len(s) : SkipClass(s, i, Litere) >= i + n

\* int() of a run of digits
RECURSIVE int(_)
int(d) ==
    IF d = <<>> THEN 0
    ELSE 10 * int(SubSeq(d, 1, Len(d) - 1))
         + (CHOOSE v \in 0 .. 9 : Cifre[v + 1] = d[Len(d)])

\* str.strip() over blanks
RECURSIVE strip(_)
strip(s) ==
    IF s = <<>> THEN s
    ELSE IF Head(s) = " " THEN strip(Tail(s))
    ELSE IF s[Len(s)] = " " THEN strip(SubSeq(s, 1, Len(s) - 1))
    ELSE s

\* str.split(sep): the pieces between the separators, empty pieces included
RECURSIVE split_by(_, _)
split_by(s, sep) ==
    IF \A i \in 1 .. Len(s) : s[i] # sep THEN <<s>>
    ELSE LET n == CHOOSE i \in 1 .. Len(s) : s[i] = sep /\ \A j \in 1 .. i - 1 : s[j] # sep
         IN  <<SubSeq(s, 1, n - 1)>> \o split_by(From(s, n + 1), sep)

\* str.split(): the maximal runs of non-blank characters
split(s) == SelectSeq(split_by(s, " "), LAMBDA w : w # <<>>)

\* ' '.join(words)
RECURSIVE join(_)
join(ws) ==
    IF ws = <<>> THEN <<>>
    ELSE IF Len(ws) = 1 THEN ws[1]
    ELSE ws[1] \o <<" ">> \o join(Tail(ws))

\* ---------------------------------------------------- bank_service: parsing
\* Python's "a or b" over strings
OrElse(a, b) == IF a # <<>> THEN a ELSE b

\* s[:n]
Trunc(s, n) == SubSeq(s, 1, IF Len(s) > n THEN n ELSE Len(s))

\* the digits matched by \d+ at position i (<<>> when there is none)
DigitsAt(s, i) == SubSeq(s, i, SkipClass(s, i, CifreSet) - 1)

\* the digits matched by \d{6,10} at position i (<<>> when fewer than 6)
Digits6At(s, i) ==
    LET cut(d) == IF Len(d) < 6 THEN <<>> ELSE Trunc(d, 10)
    IN  cut(DigitsAt(s, i))

\* (?:w1|w2|...) at position i: the index after the first alternative that
\* matches, 0 when none does
RECURSIVE AltAt(_, _, _)
AltAt(s, i, ws) ==
    IF ws = <<>> THEN 0
    ELSE IF LitAt(s, i, Head(ws)) THEN i + Len(Head(ws))
    ELSE AltAt(s, i, Tail(ws))

\* _extract_payer_info: the two tax-id patterns at position i; OptRO is
\* (?:RO)? at position k
CuiAt(s, i, pat) ==
    LET OptRO(k) == IF LitAt(s, k, <<"r","o">>) THEN k + 2 ELSE k
        cod(j)   == IF j = 0 THEN <<>>
                    ELSE Digits6At(s, OptRO(SkipClass(s, j, {":", " "})))
    IN  IF pat = 1
        THEN IF LitAt(s, i, <<"c",".","i",".","f",".",":">>)
             THEN Digits6At(s, OptRO(SkipClass(s, i + 7, {" "})))
             ELSE <<>>
        ELSE cod(AltAt(s, i, << <<"c","u","i">>, <<"c","i","f">>,
                                <<"c","o","d"," ","f","i","s","c","a","l">> >>))

\* re.search of a tax-id pattern: the digits of the leftmost match
RECURSIVE CuiFrom(_, _, _)
CuiFrom(s, i, pat) ==
    IF i > Len(s) THEN <<>>
    ELSE OrElse(CuiAt(s, i, pat), CuiFrom(s, i + 1, pat))

\* re.match(r'^RO\d{2}[A-Z]{4}', p.upper())
IsIban(p) ==
    /\ Len(p) >= 8
    /\ upper(SubSeq(p, 1, 2)) = <<"R","O">>
    /\ p[3] \in CifreSet /\ p[4] \in CifreSet
    /\ \A i \in 5 .. 8 : p[i] \in Litere

\* re.search(r'(?:SRL|S\.R\.L|SA|S\.A|PFA|SCS|II|ASOCIATI)', p, re.IGNORECASE)
HasSufix(p) ==
    \E w \in { <<"s","r","l">>, <<"s",".","r",".","l">>, <<"s","a">>, <<"s",".","a">>,
               <<"p","f","a">>, <<"s","c","s">>, <<"i","i">>,
               <<"a","s","o","c","i","a","t","i">> } :
        IsSubstr(w, lower(p))

CIF == <<"C",".","I",".","F">>

\* the fallbacks for the name: rule 2 takes the last part with a company
\* suffix, rule 3 the first part with three letters in a row; <<>> when none
FirstNume(parts, rule) ==
    LET ok(p) == IF rule = 2 THEN HasSufix(p) /\ ~StartsWith(p, CIF)
                 ELSE ~StartsWith(p, CIF) /\ HasLetters(p, 3)
        pick(idx) == IF idx = {} THEN <<>>
                     ELSE IF rule = 2 THEN parts[CHOOSE i \in idx : \A j \in idx : j <= i]
                     ELSE parts[CHOOSE i \in idx : \A j \in idx : j >= i]
    IN  pick({i \in 1 .. Len(parts) : ok(parts[i])})

\* _extract_payer_info(desc) = (name, iban, cui)
extract_payer_info(desc) ==
    LET clean(segs) == SelectSeq([i \in 1 .. Len(segs) |-> strip(segs[i])],
                                 LAMBDA p : p # <<>>)
        first(ibans) == IF ibans = {} THEN 0 ELSE CHOOSE i \in ibans : \A j \in ibans : j >= i
        nume(candidate) == IF HasLetters(candidate, 2) /\ ~StartsWith(candidate, CIF)
                           THEN candidate ELSE <<>>
        info(parts, iban_idx) ==
            [name |-> join(split(
                        OrElse(OrElse(OrElse(IF iban_idx > 1 THEN nume(parts[iban_idx - 1])
                                             ELSE <<>>,
                                             FirstNume(parts, 2)),
                                      FirstNume(parts, 3)),
                               Trunc(desc, 100)))),
             iban |-> IF iban_idx = 0 THEN <<>> ELSE upper(parts[iban_idx]),
             cui  |-> OrElse(CuiFrom(desc, 1, 1), CuiFrom(desc, 1, 2))]
        search(parts) == info(parts, first({i \in 1 .. Len(parts) : IsIban(parts[i])}))
    IN  search(clean(split_by(desc, ";")))

\* statement descriptions and references the specifications draw from
DescNume     == <<"A","c","m","e"," ","S","R","L",";","R","O","8","6","B","A","C","X","0","0","0","1">>
DescRef      == <<"P","F","-","1",";","A","C","M","E"," ","S","R","L",";","R","O","8","6","B","A","C","X","0","0","0","1">>
DescDouaRef  == <<"P","F","-","1"," ","P","F","-","2",";","A","C","M","E"," ","S","R","L",";","R","O","8","6","B","A","C","X","0","0","0","1">>
DescCif      == <<"C",".","I",".","F",".",":","1","7","6","9","6","1",";","p","l","a","t","a">>
DescProforma == <<"p","r","o","f","o","r","m","a"," ","2",";","G","a","m","a",";","R","O","8","6","B","A","C","X","0","0","0","1">>
Descrieri    == {DescNume, DescRef, DescDouaRef, DescCif, DescProforma}
Referinte    == {<<>>, <<"P","F","-","2">>, <<"H","S","L","-","1">>}

\* _extract_payer_info, tabulated once for the descriptions above
InfoPlatitor == [d \in Descrieri |-> extract_payer_info(d)]
payer_info(desc) ==
    IF desc \in Descrieri THEN InfoPlatitor[desc] ELSE extract_payer_info(desc)

\* ------------------------------------------------- bank_service: auto_match
\* amounts are integers, in bani (0.01 RON); the default tolerance is 0.01
tolerance == 1

\* table clienti (static here): nume, cui
Clienti ==
    << [nume |-> <<"A","c","m","e"," ","S","R","L">>, cui |-> <<"R","O","1","7","6","9","6","1">>],
       [nume |-> <<"B","e","t","a"," ","S","A">>, cui |-> <<>>] >>

Factura(tip, numar, client_id, oferta_id, comanda_id, status, total) ==
    [tip |-> tip, numar |-> numar, client_id |-> client_id, oferta_id |-> oferta_id,
     comanda_id |-> comanda_id, status |-> status, total |-> total]

Incasare(suma, nume, iban, cui, referinta, detalii, referinta_banca) ==
    [suma |-> suma, platitor_nume |-> nume, platitor_iban |-> iban, platitor_cui |-> cui,
     referinta |-> referinta, detalii |-> detalii, referinta_banca |-> referinta_banca,
     status |-> "nereconciliat", factura_id |-> 0, client_id |-> 0]

NEPLATITEBug == {"emisa", "trimisa", "partial", "incasata", "anulata"}
NEPLATITE == {"emisa", "trimisa", "partial"}

\* the ids of the unpaid invoices of a tip, in id order
Neplatite(F, tip) ==
    SelectSeq([i \in 1 .. Len(F) |-> i], LAMBDA i : F[i].status \in NEPLATITE /\ F[i].tip = tip)

\* ref_patterns, matched at position i: the digits of the reference
RefAt(s, i, pat) ==
    LET digits(j) == IF j = 0 THEN <<>> ELSE DigitsAt(s, SkipClass(s, j, {":", " ", "#"}))
        dash(w)   == IF LitAt(s, i, w) /\ i + Len(w) <= Len(s) /\ s[i + Len(w)] \in {"-", "/"}
                     THEN DigitsAt(s, i + Len(w) + 1) ELSE <<>>
        nr(j3)    == IF ~LitAt(s, j3, <<"n">>) THEN <<>>
                     ELSE DigitsAt(s, SkipClass(s, IF LitAt(s, j3 + 1, <<"r">>)
                                                   THEN j3 + 2 ELSE j3 + 1, {" "}))
        serie(j2) == IF j2 = 0 THEN <<>> ELSE nr(SkipClass(s, j2, {" "}))
    IN  CASE pat = 1 -> dash(<<"p","f">>)
          [] pat = 2 -> digits(AltAt(s, i, << <<"p","r","o","f","o","r","m","a">>,
                                              <<"p","f">> >>))
          [] pat = 3 -> dash(<<"h","s","l">>)
          [] pat = 4 -> digits(AltAt(s, i, << <<"f","a","c","t","u","r","a">>,
                                              <<"f","a","c","t">>, <<"f","c","t">>,
                                              <<"i","n","v">> >>))
          [] pat = 5 ->
               IF ~LitAt(s, i, <<"s","e","r","i","e">>) THEN <<>>
               ELSE serie(AltAt(s, SkipClass(s, i + 5, {" "}),
                                << <<"h","s","l">>, <<"p","f">> >>))
NrPatterns == 5

\* re.search(pat, detalii, re.IGNORECASE): the digits of the leftmost match
RECURSIVE RefFrom(_, _, _)
RefFrom(s, i, pat) ==
    IF i > Len(s) THEN <<>>
    ELSE OrElse(RefAt(s, i, pat), RefFrom(s, i + 1, pat))

\* the text auto_match searches, and the search tabulated once for the texts
\* of the descriptions and references above
TextIncasare(inc) == inc.detalii \o <<" ">> \o inc.referinta
Texte  == {d \o <<" ">> \o r : d \in Descrieri, r \in Referinte}
RefTab == [t \in Texte |-> [pat \in 1 .. NrPatterns |-> RefFrom(t, 1, pat)]]
re_search(pat, s) == IF s \in Texte THEN RefTab[s][pat] ELSE RefFrom(s, 1, pat)

\* the invoice looked up for a referenced number: an unpaid proforma first,
\* then any unpaid invoice (0 when none)
FacturaRef(F, num) ==
    LET pf  == {i \in 1 .. Len(F) : /\ F[i].numar = num /\ F[i].status \in NEPLATITE
                                    /\ F[i].tip = "proforma"}
        any == {i \in 1 .. Len(F) : F[i].numar = num /\ F[i].status \in NEPLATITE}
        first(S) == CHOOSE i \in S : \A j \in S : j >= i
    IN  IF pf # {} THEN first(pf) ELSE IF any # {} THEN first(any) ELSE 0

\* priority 1, from pattern pat on: the invoice matched by reference
RECURSIVE MatchRef(_, _, _, _)
MatchRef(F, detalii, suma, pat) ==
    LET lookup(ref) == IF ref = <<>> THEN 0 ELSE FacturaRef(F, int(ref))
        check(factura) == IF factura # 0 /\ Abs(F[factura].total - suma) < tolerance
                          THEN factura
                          ELSE MatchRef(F, detalii, suma, pat + 1)
    IN  IF pat > NrPatterns THEN 0
        ELSE check(lookup(re_search(pat, detalii)))

\* a word list without the company suffixes, short words dropped
Cuvinte(s) ==
    {w \in Range(split(s)) :
        /\ w \notin { <<"s","r","l">>, <<"s",".","r",".","l">>, <<"s","a">>, <<"s",".","a">>,
                      <<"s","c","s">>, <<"p","f","a">>, <<"i","i">>, <<"i","m","p","e","x">> }
        /\ Len(w) > 2}

fuzzy_name_match(a, b) ==
    LET min(m, n) == IF m < n THEN m ELSE n
        overlap(words_a, words_b) ==
            /\ words_a # {} /\ words_b # {}
            /\ 2 * Cardinality(words_a \cap words_b)
                  >= min(Cardinality(words_a), Cardinality(words_b))
    IN  overlap(Cuvinte(a), Cuvinte(b))

\* str.replace('RO', '')
RECURSIVE replace_RO(_)
replace_RO(s) ==
    IF Len(s) < 2 THEN s
    ELSE IF SubSeq(s, 1, 2) = <<"R","O">> THEN replace_RO(From(s, 3))
    ELSE <<Head(s)>> \o replace_RO(Tail(s))

NameMatch(F, inc, f) ==
    LET match(platitor_lower, client_name) ==
            \/ IsSubstr(client_name, platitor_lower)
            \/ IsSubstr(platitor_lower, client_name)
            \/ fuzzy_name_match(platitor_lower, client_name)
    IN  match(lower(inc.platitor_nume), lower(Clienti[F[f].client_id].nume))

CuiMatchBug(F, inc, f) == Abs(F[f].total - inc.suma) < tolerance

CuiMatch(F, inc, f) ==
    /\ Clienti[F[f].client_id].cui # <<>>
    /\ Abs(F[f].total - inc.suma) < tolerance
    /\ replace_RO(Clienti[F[f].client_id].cui) = replace_RO(inc.platitor_cui)

\* auto_match(incasare) = (factura, match_type), <<0, "">> for (None, None)
auto_match(F, inc) ==
    LET priority4(bycui) ==
            IF inc.platitor_cui # <<>> /\ bycui # <<>> THEN <<bycui[1], "cui_suma">>
            ELSE <<0, "">>
        priority3(unpaid, exact) ==
            IF Len(exact) = 1 THEN <<exact[1], "suma_unica">>
            ELSE priority4(SelectSeq(unpaid, LAMBDA f : CuiMatch(F, inc, f)))
        priority2(unpaid, exact, byname) ==
            IF byname # <<>> THEN <<byname[1], "suma_client">>
            ELSE priority3(unpaid, exact)
        amount(unpaid, exact) ==
            priority2(unpaid, exact, SelectSeq(exact, LAMBDA f : NameMatch(F, inc, f)))
        rest(unpaid) ==
            amount(unpaid, SelectSeq(unpaid, LAMBDA f : Abs(F[f].total - inc.suma) < tolerance))
        priority1(r1) ==
            IF r1 # 0 THEN <<r1, "referinta">>
            ELSE rest(Neplatite(F, "proforma") \o Neplatite(F, "fiscala"))
    IN  priority1(MatchRef(F, TextIncasare(inc), inc.suma, 1))

\* ------------------------------------------- bank_service: reconcile_batch
\* the names bound in the globals of bank_service (its imports, lines 7-11)
GlobaleBankService ==
    {"re", "csv", "io", "datetime", "date", "timedelta", "random", "randint", "choice"}

\* sum(i.suma for i in factura.incasari if i.status in ('automat', 'manual'))
RECURSIVE SumaIncasari(_, _, _)
SumaIncasari(I, fid, k) ==
    IF k > Len(I) THEN 0
    ELSE (IF I[k].factura_id = fid /\ I[k].status \in {"automat", "manual"}
          THEN I[k].suma ELSE 0) + SumaIncasari(I, fid, k + 1)

\* _sync_related_invoices(factura): the paid status crosses between the
\* proforma of an offer and the fiscal invoice of the order made from it
sync_related_invoices(F, C, fid) ==
    LET factura == F[fid]
    IN  IF factura.tip = "fiscala" /\ factura.comanda_id # 0
        THEN IF factura.comanda_id \in DOMAIN C /\ C[factura.comanda_id].oferta_id # 0
             THEN [i \in DOMAIN F |->
                     IF /\ F[i].oferta_id = C[factura.comanda_id].oferta_id
                        /\ F[i].tip = "proforma"
                        /\ F[i].status \in {"emisa", "trimisa", "confirmata"}
                     THEN [F[i] EXCEPT !.status = "incasata"] ELSE F[i]]
             ELSE F
        ELSE IF factura.tip = "proforma" /\ factura.oferta_id # 0
        THEN LET cs == {c \in DOMAIN C : C[c].oferta_id = factura.oferta_id}
             IN  IF cs = {} THEN F
                 ELSE LET comanda == CHOOSE c \in cs : \A d \in cs : d >= c
                      IN  [i \in DOMAIN F |->
                             IF /\ F[i].comanda_id = comanda
                                /\ F[i].tip = "fiscala"
                                /\ F[i].status \in {"emisa", "trimisa"}
                             THEN [F[i] EXCEPT !.status = "incasata"] ELSE F[i]]
        ELSE F

\* Incasare.query.filter_by(status='nereconciliat'), narrowed to incasari_ids
\* when the list is not empty
NereconciliateBug(I, ids) ==
    SelectSeq([i \in 1 .. Len(I) |-> i], LAMBDA i : ids = <<>> \/ i \in Range(ids))
Nereconciliate(I, ids) ==
    SelectSeq([i \in 1 .. Len(I) |-> i], LAMBDA i : /\ I[i].status = "nereconciliat"
                                 /\ (ids = <<>> \/ i \in Range(ids)))

\* the loop of reconcile_batch from its k-th payment on, over the session's
\* view (F, I) of the two tables.  A match assigns the link (lines 320-322)
\* and then evaluates datetime.now(timezone.utc): the name timezone is not
\* bound in this module, so the call raises NameError and the run ends
\* with the session uncommitted.  commits counts the db.session.commit()
\* calls of the run: the only one is line 336, after the loop.
RECURSIVE ReconcileLoop(_, _, _, _, _)
ReconcileLoop(F, I, C, q, k) ==
    LET paid(fid, total_incasat) ==
            IF total_incasat >= F[fid].total - 1
            THEN sync_related_invoices([F EXCEPT ![fid].status = "incasata"], C, fid)
            ELSE [F EXCEPT ![fid].status = "partial"]
        link(id, fid, I1) ==
            IF "timezone" \notin GlobaleBankService
            THEN [exc |-> TRUE, commits |-> 0, facturi |-> F, incasari |-> I1,
                  lot |-> SubSeq(q, 1, k)]
            ELSE ReconcileLoop(paid(fid, SumaIncasari(I1, fid, 1) + I1[id].suma),
                               I1, C, q, k + 1)
        match(id, fid) ==
            IF fid = 0 THEN ReconcileLoop(F, I, C, q, k + 1)
            ELSE link(id, fid, [I EXCEPT ![id].factura_id = fid,
                                         ![id].client_id = F[fid].client_id,
                                         ![id].status = "automat"])
    IN  IF k > Len(q)
        THEN [exc |-> FALSE, commits |-> 1, facturi |-> F, incasari |-> I, lot |-> q]
        ELSE match(q[k], auto_match(F, I[q[k]])[1])

reconcile_batch(F, I, C, incasari_ids) ==
    ReconcileLoop(F, I, C, Nereconciliate(I, incasari_ids), 1)

\* --------------------------------------------------- bank_service: amounts
\* a float is an exact fraction [n, d]; nan is 0/0 and the infinities are
\* 1/0 and -1/0.
\* float(s) over texts of digits, '.', a sign and letters (no exponent, no
\* underscore): <<>> stands for ValueError
float(s) ==
    LET numar(t, semn) ==
            LET puncte == {i \in 1 .. Len(t) : t[i] = "."}
                cifre  == SelectSeq(t, LAMBDA c : c \in CifreSet)
            IN  IF lower(t) = <<"n","a","n">> THEN <<[n |-> 0, d |-> 0]>>
                ELSE IF lower(t) \in {<<"i","n","f">>, <<"i","n","f","i","n","i","t","y">>}
                THEN <<[n |-> semn, d |-> 0]>>
                ELSE IF \/ cifre = <<>>
                        \/ Cardinality(puncte) > 1
                        \/ \E i \in 1 .. Len(t) : t[i] \notin CifreSet \cup {"."}
                THEN <<>>
                ELSE IF puncte = {} THEN <<Frac(semn * int(cifre), 1)>>
                ELSE <<Frac(semn * int(cifre),
                            10 ^ (Len(t) - (CHOOSE i \in puncte : TRUE)))>>
    IN  IF s = <<>> THEN <<>>
        ELSE IF Head(s) = "-" THEN numar(Tail(s), -1)
        ELSE IF Head(s) = "+" THEN numar(Tail(s), 1)
        ELSE numar(s, 1)

\* _parse_amount
parse_amount(text) ==
    LET fara(s, c) == SelectSeq(s, LAMBDA x : x # c)
        inloc(s) == [i \in 1 .. Len(s) |-> IF s[i] = "," THEN "." ELSE s[i]]
        are(s, c) == \E i \in 1 .. Len(s) : s[i] = c
        try(v) == IF v = <<>> THEN Pret(0) ELSE v[1]
        parse(s) ==
            IF s = <<>> \/ s = <<"0">> THEN Pret(0)
            ELSE IF are(s, ",") /\ are(s, ".") THEN try(float(inloc(fara(s, "."))))
            ELSE IF are(s, ",") THEN try(float(inloc(s)))
            ELSE try(float(s))
    IN  parse(fara(strip(text), " "))

\* ------------------------------------------------------- app: bank handlers
\* a data row of the statement: date, description, reference and the text of
\* the credit column
Rand(data, descriere, referinta, credit) ==
    [data |-> data, descriere |-> descriere, referinta |-> referinta, credit |-> credit]

\* parse_bt_csv: the transactions of the rows that carry a date and a credit;
\* suma is the credit in bani (nan and inf are kept as they are)
RECURSIVE parse_bt_csv(_, _)
parse_bt_csv(rows, transactions) ==
    LET transaction(r, suma, info) ==
            Incasare(suma, OrElse(info.name, Trunc(r.descriere, 200)),
                     info.iban, info.cui, Trunc(r.referinta, 200), r.descriere,
                     <<r.data, suma, Len(transactions)>>)
        row(r, credit) ==
            \* if credit <= 0: continue (False for nan)
            IF r.data = 0 \/ (IF credit.d = 0 THEN credit.n < 0 ELSE credit.n <= 0)
            THEN parse_bt_csv(Tail(rows), transactions)
            ELSE parse_bt_csv(Tail(rows),
                     Append(transactions,
                            transaction(r, IF credit.d = 0 THEN credit
                                           ELSE (credit.n * 100) \div credit.d,
                                        payer_info(r.descriere))))
    IN  IF rows = <<>> THEN transactions ELSE row(Head(rows), parse_amount(Head(rows).credit))

\* the import loop: a transaction whose referinta_banca is already stored is
\* skipped
ImportLoopBug(I, ts) == I \o ts

RECURSIVE ImportLoop(_, _)
ImportLoop(I, ts) ==
    IF ts = <<>> THEN I
    ELSE IF \E i \in DOMAIN I : I[i].referinta_banca = Head(ts).referinta_banca
    THEN ImportLoop(I, Tail(ts))
    ELSE ImportLoop(Append(I, Head(ts)), Tail(ts))

\* the outcome of a handler that ends with reconcile_batch over the committed
\* payments I1: an exception discards the run's session and answers 500
DupaReconcile(op, I1, ids) ==
    \E r \in {reconcile_batch(facturi, I1, comenzi, ids)} :
        /\ lot' = r.lot
        /\ UNCHANGED potrivire
        /\ IF r.exc
           THEN /\ incasari' = I1
                /\ facturi' = facturi
                /\ raspuns' = Raspuns(op, 500, "NameError")
           ELSE /\ incasari' = r.incasari
                /\ facturi' = r.facturi
                /\ raspuns' = Raspuns(op, 200, "")

\* POST /api/incasari/import-csv
api_incasari_import_csv(are_fisier, rows) ==
    /\ IF ~are_fisier
       THEN /\ raspuns' = Raspuns("incasari_import_csv", 400, "Niciun fisier selectat")
            /\ UNCHANGED <<bankVars, csv>>
       ELSE \E ts \in {parse_bt_csv(rows, <<>>)} :
              /\ csv' = [rows |-> rows, parsed |-> TRUE, credit |-> Pret(0),
                         transactions |-> ts]
              /\ \E I1 \in {ImportLoop(incasari, ts)} :
                    IF Len(I1) > Len(incasari)
                    THEN DupaReconcile("incasari_import_csv", I1,
                             [i \in 1 .. Len(I1) - Len(incasari) |-> Len(incasari) + i])
                    ELSE /\ incasari' = I1
                         /\ raspuns' = Raspuns("incasari_import_csv", 200, "")
                         /\ UNCHANGED <<facturi, lot, potrivire>>
    /\ UNCHANGED <<cereri, niruri, stoc, miscari, pickVars>>

\* the payer fields api_incasari_rematch parses again from detalii
Reparse(inc) ==
    LET update(info) ==
            [inc EXCEPT
                !.platitor_nume = IF info.name # <<>> /\ info.name # @ THEN info.name ELSE @,
                !.platitor_iban = IF info.iban # <<>> /\ @ = <<>> THEN info.iban ELSE @,
                !.platitor_cui  = IF info.cui # <<>> /\ @ = <<>> THEN info.cui ELSE @]
    IN  IF inc.detalii = <<>> THEN inc ELSE update(payer_info(inc.detalii))

\* POST /api/incasari/re-match
api_incasari_rematch ==
    /\ \E I1 \in {[i \in DOMAIN incasari |-> Reparse(incasari[i])]} :
           DupaReconcile("incasari_rematch", I1, <<>>)
    /\ UNCHANGED <<cereri, csv, niruri, stoc, miscari, pickVars>>

\* POST /api/incasari/<iid>/reconciliaza: link by hand (factura_id given) or
\* unlink (factura_id 0)
api_incasari_reconciliaza(iid, factura_id) ==
    /\ IF iid \notin DOMAIN incasari \/ (factura_id # 0 /\ factura_id \notin DOMAIN facturi)
       THEN /\ raspuns' = Raspuns("incasari_reconciliaza", 404, "Not Found")
            /\ UNCHANGED <<facturi, incasari>>
       ELSE IF factura_id # 0
       THEN LET I1 == [incasari EXCEPT ![iid].factura_id = factura_id,
                                       ![iid].client_id = facturi[factura_id].client_id,
                                       ![iid].status = "manual"]
                total_incasat == SumaIncasari(I1, factura_id, 1)
            IN  /\ incasari' = I1
                /\ facturi' =
                     IF total_incasat >= facturi[factura_id].total - 1
                     THEN sync_related_invoices(
                              [facturi EXCEPT ![factura_id].status = "incasata"],
                              comenzi, factura_id)
                     ELSE [facturi EXCEPT ![factura_id].status = "partial"]
                /\ raspuns' = Raspuns("incasari_reconciliaza", 200, "")
       ELSE /\ facturi' = IF incasari[iid].factura_id # 0
                          THEN [facturi EXCEPT ![incasari[iid].factura_id].status = "emisa"]
                          ELSE facturi
            /\ incasari' = [incasari EXCEPT ![iid].factura_id = 0,
                                            ![iid].client_id = 0,
                                            ![iid].status = "nereconciliat"]
            /\ raspuns' = Raspuns("incasari_reconciliaza", 200, "")
    /\ UNCHANGED <<cereri, csv, niruri, stoc, miscari, pickVars, lot, potrivire>>

\* POST /api/incasari/<iid>/ignora
api_incasari_ignora(iid) ==
    /\ IF iid \notin DOMAIN incasari
       THEN /\ raspuns' = Raspuns("incasari_ignora", 404, "Not Found")
            /\ UNCHANGED incasari
       ELSE /\ incasari' = [incasari EXCEPT ![iid].status = "ignorat"]
            /\ raspuns' = Raspuns("incasari_ignora", 200, "")
    /\ UNCHANGED <<cereri, csv, niruri, stoc, miscari, pickVars, facturi, lot, potrivire>>

\* ---------------------------------------------------- app: invoice handlers
\* table oferte (static here): the client of each offer
Oferte == << [client_id |-> 1], [client_id |-> 2] >>

\* the next number of the separate sequence of a tip: last.numar + 1, else 1
NextNr(F, tip) ==
    LET nrs == {F[i].numar : i \in {j \in DOMAIN F : F[j].tip = tip}}
    IN  IF nrs = {} THEN 1 ELSE (CHOOSE n \in nrs : \A m \in nrs : m <= n) + 1

\* POST /api/oferta/<oid>/proforma; total_ron is the offer's total at the
\* day's exchange rate; a failed lookup inside the try block answers 500
api_oferta_to_proforma(oid, curs, total_ron) ==
    /\ IF oid \notin DOMAIN Oferte
       THEN /\ raspuns' = Raspuns("oferta_to_proforma", 500, "Not Found")
            /\ UNCHANGED facturi
       ELSE IF ~curs
       THEN /\ raspuns' = Raspuns("oferta_to_proforma", 400, "Cursul valutar nu este disponibil")
            /\ UNCHANGED facturi
       ELSE /\ facturi' = Append(facturi,
                              Factura("proforma", NextNr(facturi, "proforma"),
                                      Oferte[oid].client_id, oid, 0, "emisa", total_ron))
            /\ raspuns' = Raspuns("oferta_to_proforma", 200, "")
    /\ UNCHANGED <<cereri, csv, niruri, stoc, miscari, pickVars, incasari, lot, potrivire>>

\* POST /api/comanda/<cid>/factura; the invoice is born paid when a proforma
\* of the order's offer is paid
api_comanda_to_factura(cid, curs, total_ron) ==
    /\ IF cid \notin DOMAIN comenzi
       THEN /\ raspuns' = Raspuns("comanda_to_factura", 500, "Not Found")
            /\ UNCHANGED facturi
       ELSE IF ~curs
       THEN /\ raspuns' = Raspuns("comanda_to_factura", 400, "Cursul valutar nu este disponibil")
            /\ UNCHANGED facturi
       ELSE LET comanda == comenzi[cid]
                platita == /\ comanda.oferta_id # 0
                           /\ \E i \in DOMAIN facturi :
                                 /\ facturi[i].oferta_id = comanda.oferta_id
                                 /\ facturi[i].tip = "proforma"
                                 /\ facturi[i].status = "incasata"
            IN  /\ facturi' = Append(facturi,
                                  Factura("fiscala", NextNr(facturi, "fiscala"),
                                          comanda.client_id, 0, cid,
                                          IF platita THEN "incasata" ELSE "emisa", total_ron))
                /\ raspuns' = Raspuns("comanda_to_factura", 200, "")
    /\ UNCHANGED <<cereri, csv, niruri, stoc, miscari, pickVars, incasari, lot, potrivire>>

\* POST /api/factura/<fid>/status: any status text is stored
api_factura_status(fid, status) ==
    /\ IF fid \notin DOMAIN facturi
       THEN /\ raspuns' = Raspuns("factura_status", 404, "Not Found")
            /\ UNCHANGED facturi
       ELSE /\ facturi' = [facturi EXCEPT ![fid].status = status]
            /\ raspuns' = Raspuns("factura_status", 200, "")
    /\ UNCHANGED <<cereri, csv, niruri, stoc, miscari, pickVars, incasari, lot, potrivire>>

\* ---------------------------------------------------------- orders, picking
STATUSES_COMANDA ==
    {"pending", "noua", "confirmata", "productie", "gata", "livrata", "finalizata", "anulat"}

LinieComanda(cod, q) == [cod |-> cod, cantitate |-> q]

\* POST /api/oferta/<oid>/convert: the order copies the lines of the offer;
\* it is 'noua' when a proforma of the offer is paid, 'pending' when one is
\* only confirmed
api_oferta_to_comanda(oid, linii) ==
    /\ LET proforme == {i \in DOMAIN facturi :
                           facturi[i].oferta_id = oid /\ facturi[i].tip = "proforma"}
           pf_incasata   == \E i \in proforme : facturi[i].status = "incasata"
           pf_confirmata == \E i \in proforme : facturi[i].status = "confirmata"
           respins(st, e) == /\ raspuns' = Raspuns("oferta_to_comanda", st, e)
                             /\ UNCHANGED comenzi
       IN  IF oid \notin DOMAIN Oferte THEN respins(404, "Not Found")
           ELSE IF \E c \in DOMAIN comenzi : comenzi[c].oferta_id = oid
           THEN respins(400, "Oferta are deja o comanda asociata")
           ELSE IF proforme = {}
           THEN respins(400, "Nu se poate crea comanda fara proforma")
           ELSE IF ~pf_incasata /\ ~pf_confirmata
           THEN respins(400, "Proforma trebuie sa fie cel putin confirmata")
           ELSE /\ comenzi' = Append(comenzi,
                                  [status |-> IF pf_incasata THEN "noua" ELSE "pending",
                                   oferta_id |-> oid, client_id |-> Oferte[oid].client_id,
                                   linii |-> linii])
                /\ raspuns' = Raspuns("oferta_to_comanda", 200, "")
    /\ UNCHANGED <<cereri, csv, niruri, stoc, miscari, pickings, note_livrare, bankVars>>

RECURSIVE MiscariComanda(_, _, _, _, _)
MiscariComanda(m, tip, cid, linii, i) ==
    IF i > Len(linii) THEN m
    ELSE MiscariComanda(BagAdd(m, Miscare(tip, linii[i].cod, linii[i].cantitate,
                                          NoCell, NoCell, 0, cid)),
                        tip, cid, linii, i + 1)

\* POST /api/comanda/<cid>/status
api_comanda_status(cid, new_status, is_admin) ==
    /\ cid \in 1 .. Len(comenzi)
    /\ LET c == comenzi[cid]
           old_status == c.status
           respins(st, e) == /\ raspuns' = Raspuns("comanda_status", st, e)
                             /\ UNCHANGED <<comenzi, miscari>>
       IN  IF new_status \notin STATUSES_COMANDA THEN respins(400, "Status invalid")
           ELSE IF old_status = "pending" /\ new_status \in {"noua", "anulat"} /\ ~is_admin
           THEN respins(403, "Doar un administrator")
           ELSE IF old_status = "pending" /\ new_status \notin {"noua", "anulat"}
           THEN respins(400, "Comanda trebuie aprobata mai intai")
           ELSE /\ comenzi' = [comenzi EXCEPT ![cid].status = new_status]
                /\ miscari' =
                     LET m1 == IF new_status = "confirmata" /\ old_status = "noua"
                               THEN MiscariComanda(miscari, "rezervare", cid, c.linii, 1)
                               ELSE miscari
                     IN  IF new_status = "livrata"
                         THEN MiscariComanda(m1, "iesire", cid, c.linii, 1)
                         ELSE m1
                /\ raspuns' = Raspuns("comanda_status", 200, "")
    /\ UNCHANGED <<cereri, csv, niruri, stoc, pickings, note_livrare, bankVars>>

\* the cells holding the most stock of cod, among cells with cantitate > 0:
\* stocuri[0].celula_id under ORDER BY cantitate DESC, None when there is none
CeluleSugerate(s, cod) ==
    LET rows == {r \in BagToSet(s) : r.cod_intern = cod /\ r.celula_id # NoCell
                                     /\ r.cantitate > 0}
    IN  IF rows = {} THEN {NoCell}
        ELSE {r.celula_id : r \in {x \in rows : \A y \in rows : x.cantitate >= y.cantitate}}

StocDisponibil(s, cod, cel) ==
    IF cel = NoCell THEN 0 ELSE StocFirst(s, cod, cel).cantitate

LiniePicking(lc, cel, disp) ==
    [cod_intern |-> lc.cod, cantitate_ceruta |-> lc.cantitate, celula_sursa_id |-> cel,
     stoc_disponibil |-> disp, preluata |-> FALSE, cantitate_preluata |-> 0,
     celula_efectiva_id |-> NoCell]

\* one LiniePicking per order line with a non-empty code
RECURSIVE LiniiPicking(_, _, _, _)
LiniiPicking(s, linii, cel, i) ==
    IF i > Len(linii) THEN <<>>
    ELSE IF linii[i].cod = "" THEN LiniiPicking(s, linii, cel, i + 1)
    ELSE <<LiniePicking(linii[i], cel[i], StocDisponibil(s, linii[i].cod, cel[i]))>>
         \o LiniiPicking(s, linii, cel, i + 1)

PickingActivBug(cid) == FALSE

PickingActiv(cid) ==
    \E p \in 1 .. Len(pickings) :
        pickings[p].comanda_id = cid /\ pickings[p].status \notin {"anulat", "livrat"}

\* POST /api/wms/picking/genereaza/<cid>
api_picking_genereaza(cid) ==
    /\ cid \in 1 .. Len(comenzi)
    /\ LET cmd == comenzi[cid]
       IN  IF cmd.status \notin {"confirmata", "productie", "gata"}
           THEN /\ raspuns' = Raspuns("picking_genereaza", 400, "Comanda nu este intr-un status valid")
                /\ UNCHANGED pickings
           ELSE IF PickingActiv(cid)
           THEN /\ raspuns' = Raspuns("picking_genereaza", 400, "Exista deja picking activ")
                /\ UNCHANGED pickings
           ELSE /\ \E cel \in [1 .. Len(cmd.linii) -> Locatii] :
                     /\ \A i \in 1 .. Len(cmd.linii) :
                           cel[i] \in IF cmd.linii[i].cod = "" THEN {NoCell}
                                      ELSE CeluleSugerate(stoc, cmd.linii[i].cod)
                     /\ pickings' = Append(pickings,
                            [comanda_id |-> cid, status |-> "nou",
                             linii |-> LiniiPicking(stoc, cmd.linii, cel, 1)])
                /\ raspuns' = Raspuns("picking_genereaza", 200, "")
    /\ UNCHANGED <<cereri, csv, niruri, stoc, miscari, comenzi, note_livrare, bankVars>>

\* POST /api/wms/picking/<pid>/start
api_picking_start(pid) ==
    /\ pid \in 1 .. Len(pickings)
    /\ IF pickings[pid].status # "nou"
       THEN /\ raspuns' = Raspuns("picking_start", 400, "Picking-ul nu este nou")
            /\ UNCHANGED pickings
       ELSE /\ pickings' = [pickings EXCEPT ![pid].status = "in_pregatire"]
            /\ raspuns' = Raspuns("picking_start", 200, "")
    /\ UNCHANGED <<cereri, csv, niruri, stoc, miscari, comenzi, note_livrare, bankVars>>

\* Picking.progres
progres(pick) ==
    LET total == Len(pick.linii)
    IN  IF total = 0 THEN <<0, 0>>
        ELSE <<Cardinality({i \in 1..total : pick.linii[i].preluata}), total>>

\* p_done, p_total = pick.progres; if p_done >= p_total: pick.status = 'complet'
PreluaStatus(pick) ==
    LET p == progres(pick)
    IN  IF p[1] >= p[2] THEN [pick EXCEPT !.status = "complet"] ELSE pick

\* if stoc.cantitate < cant
StocInsuficientBug(r, cant) == FALSE

StocInsuficient(r, cant) == r.cantitate < cant

\* POST /api/wms/picking/linie/<lid>/prelua; celula = NoCell stands for a
\* request without celula_id, which falls back to lp.celula_sursa_id
api_picking_linie_prelua(pid, lid, cant, celula) ==
    /\ pid \in 1 .. Len(pickings)
    /\ lid \in 1 .. Len(pickings[pid].linii)
    /\ LET pick == pickings[pid]
           lp == pick.linii[lid]
           celula_id == IF celula # NoCell THEN celula ELSE lp.celula_sursa_id
           respins(e) == /\ raspuns' = Raspuns("picking_linie_prelua", 400, e)
                         /\ UNCHANGED <<pickings, stoc, miscari>>
           marcheaza == pickings' = [pickings EXCEPT ![pid] =
                            PreluaStatus([@ EXCEPT !.linii[lid] =
                                [lp EXCEPT !.preluata = TRUE, !.cantitate_preluata = cant,
                                           !.celula_efectiva_id = celula_id]])]
       IN  IF pick.status # "in_pregatire" THEN respins("Picking-ul nu este in pregatire")
           ELSE IF cant <= 0 THEN respins("Cantitate invalida")
           ELSE IF celula_id # NoCell
           THEN IF HasStoc(stoc, lp.cod_intern, celula_id)
                THEN LET r == StocFirst(stoc, lp.cod_intern, celula_id)
                     IN  IF StocInsuficient(r, cant) THEN respins("Stoc insuficient in celula")
                         ELSE /\ stoc' = IF r.cantitate - cant = 0 THEN BagDel(stoc, r)
                                         ELSE BagSet(stoc, r, [r EXCEPT !.cantitate = @ - cant])
                              /\ miscari' = BagAdd(miscari,
                                     Miscare("iesire_comanda", lp.cod_intern, cant, celula_id,
                                             NoCell, 0, pick.comanda_id))
                              /\ marcheaza
                              /\ raspuns' = Raspuns("picking_linie_prelua", 200, "")
                ELSE respins("Nu exista stoc pe aceasta celula")
           ELSE /\ marcheaza
                /\ raspuns' = Raspuns("picking_linie_prelua", 200, "")
                /\ UNCHANGED <<stoc, miscari>>
    /\ UNCHANGED <<cereri, csv, niruri, comenzi, note_livrare, bankVars>>

\* api_picking_linie_prelua as the requests of two workers run it.  The
\* first half is the reads: the line, its picking, the stock row and the
\* checks on what was read.  SELECTs open no transaction under the sqlite
\* driver, so another request may commit between the two halves.
prelua_citeste(w, pid, lid, cant, celula) ==
    /\ cereri[w].pc = "liber"
    /\ pid \in 1 .. Len(pickings)
    /\ lid \in 1 .. Len(pickings[pid].linii)
    /\ LET pick == pickings[pid]
           lp == pick.linii[lid]
           celula_id == IF celula # NoCell THEN celula ELSE lp.celula_sursa_id
           respins(e) == /\ raspuns' = Raspuns("picking_linie_prelua", 400, e)
                         /\ UNCHANGED cereri
           citit(q) == /\ cereri' = [cereri EXCEPT ![w] =
                              [pc |-> "scrie", pid |-> pid, lid |-> lid, cant |-> cant,
                               celula_id |-> celula_id, citit |-> q]]
                       /\ UNCHANGED raspuns
       IN  IF pick.status # "in_pregatire" THEN respins("Picking-ul nu este in pregatire")
           ELSE IF cant <= 0 THEN respins("Cantitate invalida")
           ELSE IF celula_id = NoCell THEN citit(0)
           ELSE IF ~HasStoc(stoc, lp.cod_intern, celula_id)
           THEN respins("Nu exista stoc pe aceasta celula")
           ELSE IF StocInsuficient(StocFirst(stoc, lp.cod_intern, celula_id), cant)
           THEN respins("Stoc insuficient in celula")
           ELSE citit(StocFirst(stoc, lp.cod_intern, celula_id).cantitate)
    /\ UNCHANGED <<csv, niruri, stoc, miscari, pickVars, bankVars>>

\* the second half is the flush and the commit: the row is written with the
\* value computed from the quantity that was read (UPDATE ... SET cantitate
\* = <read - cant> WHERE id), or deleted when that value is 0.  An UPDATE
\* that finds no row raises StaleDataError and the request is rolled back;
\* a DELETE that finds no row only warns.
prelua_scrie(w) ==
    /\ cereri[w].pc = "scrie"
    /\ LET c == cereri[w]
           pick == pickings[c.pid]
           lp == pick.linii[c.lid]
           ramas == c.citit - c.cant
           marcheaza == pickings' = [pickings EXCEPT ![c.pid] =
                            PreluaStatus([@ EXCEPT !.linii[c.lid] =
                                [lp EXCEPT !.preluata = TRUE, !.cantitate_preluata = c.cant,
                                           !.celula_efectiva_id = c.celula_id]])]
       IN  IF c.celula_id = NoCell
           THEN /\ marcheaza
                /\ raspuns' = Raspuns("picking_linie_prelua", 200, "")
                /\ UNCHANGED <<stoc, miscari>>
           ELSE IF ramas # 0 /\ ~HasStoc(stoc, lp.cod_intern, c.celula_id)
           THEN /\ raspuns' = Raspuns("picking_linie_prelua", 500, "StaleDataError")
                /\ UNCHANGED <<stoc, miscari, pickings>>
           ELSE /\ stoc' = IF ~HasStoc(stoc, lp.cod_intern, c.celula_id) THEN stoc
                           ELSE IF ramas = 0
                           THEN BagDel(stoc, StocFirst(stoc, lp.cod_intern, c.celula_id))
                           ELSE BagSet(stoc, StocFirst(stoc, lp.cod_intern, c.celula_id),
                                       [StocFirst(stoc, lp.cod_intern, c.celula_id)
                                           EXCEPT !.cantitate = ramas])
                /\ miscari' = BagAdd(miscari,
                       Miscare("iesire_comanda", lp.cod_intern, c.cant, c.celula_id,
                               NoCell, 0, pick.comanda_id))
                /\ marcheaza
                /\ raspuns' = Raspuns("picking_linie_prelua", 200, "")
    /\ cereri' = [cereri EXCEPT ![w] = Liber]
    /\ UNCHANGED <<csv, niruri, comenzi, note_livrare, bankVars>>

\* pick.nota_livrare
NotaPicking(pid) == {n \in 1 .. Len(note_livrare) : note_livrare[n].picking_id = pid}

\* nota = NotaLivrare(picking_id=pick.id, comanda_id=cmd.id, ...); db.session.add(nota)
AdaugaNotaBug(note, pid, cid) == note

AdaugaNota(note, pid, cid) ==
    Append(note, [picking_id |-> pid, comanda_id |-> cid])

\* POST /api/wms/picking/<pid>/nota-livrare
api_picking_nota_livrare(pid) ==
    /\ pid \in 1 .. Len(pickings)
    /\ LET pick == pickings[pid]
       IN  IF pick.status # "complet"
           THEN /\ raspuns' = Raspuns("picking_nota_livrare", 400, "Picking-ul nu este complet")
                /\ UNCHANGED <<pickings, comenzi, note_livrare>>
           ELSE IF NotaPicking(pid) # {}
           THEN /\ raspuns' = Raspuns("picking_nota_livrare", 400, "Nota de livrare exista deja")
                /\ UNCHANGED <<pickings, comenzi, note_livrare>>
           ELSE /\ note_livrare' = AdaugaNota(note_livrare, pid, pick.comanda_id)
                /\ pickings' = [pickings EXCEPT ![pid].status = "livrat"]
                /\ comenzi' = [comenzi EXCEPT ![pick.comanda_id].status = "livrata"]
                /\ raspuns' = Raspuns("picking_nota_livrare", 200, "")
    /\ UNCHANGED <<cereri, csv, niruri, stoc, miscari, bankVars>>

\* ------------------------------------------------------------ specification
Cantitati == 0 .. MaxCant

Init ==
    /\ niruri = <<>>
    /\ stoc = EmptyBag
    /\ miscari = EmptyBag
    /\ comenzi = <<>>
    /\ pickings = <<>>
    /\ note_livrare = <<>>
    /\ facturi = <<>>
    /\ incasari = <<>>
    /\ lot = <<>>
    /\ potrivire = <<0, "">>
    /\ cereri = [w \in 1 .. MaxCereri |-> Liber]
    /\ csv = [rows |-> <<>>, parsed |-> FALSE, credit |-> Pret(0), transactions |-> <<>>]
    /\ raspuns = Raspuns("", 200, "")

NirNou ==
    \E linii \in UNION {[1..k -> FormeLinie] : k \in 0 .. MaxLinii} :
        /\ Len(niruri) < MaxNir
        /\ NrLinii(niruri) + Len(linii) <= MaxLinii
        /\ nir_nou(linii)

NirConfirma ==
    \E nid \in 1 .. MaxNir :
        /\ nid \in 1 .. Len(niruri)
        /\ BagCardinality(miscari) + Len(niruri[nid].linii) <= MaxMiscari
        /\ api_nir_confirma(nid)

NirLinieVerifica ==
    \E nid \in 1 .. MaxNir, lid \in 1 .. MaxLinii, cant \in Cantitati, cel \in Locatii :
        /\ NrVerif(niruri) < MaxVerif
        /\ api_nir_linie_verifica(nid, lid, cant, cel)

WmsTransfer ==
    \E cod \in Coduri, a \in Celule, b \in Celule, cant \in Cantitati :
        /\ BagCardinality(miscari) < MaxMiscari
        /\ api_wms_transfer(cod, a, b, cant)

WmsRemapCod ==
    \E a \in Coduri, b \in Coduri : api_wms_remap_cod(a, b)

Next ==
    \/ NirNou
    \/ NirConfirma
    \/ NirLinieVerifica
    \/ WmsTransfer
    \/ WmsRemapCod

Spec == Init /\ [][Next]_vars

\* the picking side: one receipt brings stock into the cells, orders are
\* converted from offers, picked and delivered
PkNirNou ==
    /\ Len(niruri) < 1
    /\ nir_nou(<<LinieNIR("X", MaxCant, 1)>>)

PkNirConfirma ==
    \E nid \in 1 .. MaxNir :
        /\ nid \in 1 .. Len(niruri)
        /\ niruri[nid].status = "scriptic"
        /\ api_nir_confirma(nid)

PkNirLinieVerifica ==
    \E nid \in 1 .. MaxNir, cant \in 1 .. MaxCant, cel \in Celule :
        /\ NrVerif(niruri) < MaxVerif
        /\ api_nir_linie_verifica(nid, 1, cant, cel)

OfertaToComanda ==
    \E oid \in DOMAIN Oferte,
       linii \in UNION {[1..k -> {LinieComanda("X", 1), LinieComanda("", 1)}] : k \in 0 .. 2} :
        /\ Len(comenzi) < MaxComenzi
        /\ api_oferta_to_comanda(oid, linii)

ComandaStatus ==
    \E cid \in 1 .. MaxComenzi, st \in {"noua", "confirmata", "anulat", "altceva"}, adm \in BOOLEAN :
        /\ cid \in 1 .. Len(comenzi)
        /\ BagCardinality(miscari) + Len(comenzi[cid].linii) <= MaxMiscariPick
        /\ api_comanda_status(cid, st, adm)

PickingGenereaza ==
    \E cid \in 1 .. MaxComenzi :
        /\ Len(pickings) < MaxPick
        /\ api_picking_genereaza(cid)

PickingStart == \E pid \in 1 .. MaxPick : api_picking_start(pid)

PickingLiniePrelua ==
    \E pid \in 1 .. MaxPick, lid \in 1 .. 2, cant \in Cantitati, cel \in Locatii :
        /\ BagCardinality(miscari) < MaxMiscariPick
        /\ api_picking_linie_prelua(pid, lid, cant, cel)

PickingNotaLivrare == \E pid \in 1 .. MaxPick : api_picking_nota_livrare(pid)

NextPick ==
    \/ PkNirNou
    \/ PkNirConfirma
    \/ PkNirLinieVerifica
    \/ OfertaToComanda
    \/ ComandaStatus
    \/ PickingGenereaza
    \/ PickingStart
    \/ PickingLiniePrelua
    \/ PickingNotaLivrare

\* the first offer already has its proforma, confirmed or paid
InitPick ==
    /\ niruri = <<>>
    /\ stoc = EmptyBag
    /\ miscari = EmptyBag
    /\ comenzi = <<>>
    /\ pickings = <<>>
    /\ note_livrare = <<>>
    /\ \E st \in {"confirmata", "incasata"} :
          facturi = <<Factura("proforma", 1, Oferte[1].client_id, 1, 0, st, 100000)>>
    /\ incasari = <<>>
    /\ lot = <<>>
    /\ potrivire = <<0, "">>
    /\ cereri = [w \in 1 .. MaxCereri |-> Liber]
    /\ csv = [rows |-> <<>>, parsed |-> FALSE, credit |-> Pret(0), transactions |-> <<>>]
    /\ raspuns = Raspuns("", 200, "")

SpecPick == InitPick /\ [][NextPick]_vars

\* concurrent picking fulfilment: the receipt of MaxCant pieces of X is
\* verified into cell 1, the order of the first offer has two lines of X
\* and is confirmed, its picking is generated and started; two workers
\* then serve fulfilment requests at the same time
InitPrelua ==
    /\ niruri = <<[status |-> "verificat",
                   linii |-> <<[LinieNIR("X", MaxCant, 1) EXCEPT
                                   !.verificari = <<[cantitate |-> MaxCant, celula_id |-> 1]>>]>>]>>
    /\ stoc = SetToBag({StocRow("X", 1, MaxCant, Pret(1))})
    /\ miscari = MiscariComanda(
                     SetToBag({Miscare("intrare_nir", "X", MaxCant, NoCell, NoCell, 1, 0)}),
                     "rezervare", 1, <<LinieComanda("X", 1), LinieComanda("X", 1)>>, 1)
    /\ comenzi = <<[status |-> "confirmata", oferta_id |-> 1,
                    client_id |-> Oferte[1].client_id,
                    linii |-> <<LinieComanda("X", 1), LinieComanda("X", 1)>>]>>
    /\ pickings = <<[comanda_id |-> 1, status |-> "in_pregatire",
                     linii |-> <<LiniePicking(LinieComanda("X", 1), 1, MaxCant),
                                 LiniePicking(LinieComanda("X", 1), 1, MaxCant)>>]>>
    /\ note_livrare = <<>>
    /\ \E st \in {"confirmata", "incasata"} :
          facturi = <<Factura("proforma", 1, Oferte[1].client_id, 1, 0, st, 100000)>>
    /\ incasari = <<>>
    /\ lot = <<>>
    /\ potrivire = <<0, "">>
    /\ cereri = [w \in 1 .. MaxCereri |-> Liber]
    /\ csv = [rows |-> <<>>, parsed |-> FALSE, credit |-> Pret(0), transactions |-> <<>>]
    /\ raspuns = Raspuns("picking_start", 200, "")

NextPrelua ==
    \/ \E w \in 1 .. MaxCereri, lid \in 1 .. 2, cant \in Cantitati, cel \in Locatii :
          /\ BagCardinality(miscari)
                 + Cardinality({v \in 1 .. MaxCereri : cereri[v].pc = "scrie"}) < MaxMiscariPrelua
          /\ prelua_citeste(w, 1, lid, cant, cel)
    \/ \E w \in 1 .. MaxCereri : prelua_scrie(w)

SpecPrelua == InitPrelua /\ [][NextPrelua]_vars

\* the delivery cycle of one order, from its started picking on: the lines
\* are picked, the delivery note is issued, the order is set back to a
\* status that allows picking and a further picking is generated
NextLivrare ==
    \/ \E st \in {"pending", "noua", "confirmata", "gata", "productie"}, adm \in BOOLEAN :
          /\ BagCardinality(miscari) + Len(comenzi[1].linii) <= MaxMiscariPrelua
          /\ api_comanda_status(1, st, adm)
    \/ \E cid \in 1 .. MaxComenzi :
          /\ Len(pickings) < MaxPickLivrare
          /\ api_picking_genereaza(cid)
    \/ \E pid \in 1 .. MaxPickLivrare : api_picking_start(pid)
    \/ \E pid \in 1 .. MaxPickLivrare, lid \in 1 .. 2, cant \in Cantitati, cel \in Locatii :
          /\ BagCardinality(miscari) < MaxMiscariPrelua
          /\ api_picking_linie_prelua(pid, lid, cant, cel)
    \/ \E pid \in 1 .. MaxPickLivrare : api_picking_nota_livrare(pid)

SpecLivrare == InitPrelua /\ [][NextLivrare]_vars

\* the receipt scenario: one NIR with a single line, 10 pieces at price 5
E2ENirNou ==
    /\ Len(niruri) < 1
    /\ nir_nou(<<LinieNIR("X", 10, 5)>>)

E2ENirConfirma ==
    /\ Len(niruri) = 1
    /\ api_nir_confirma(1)

E2ENirLinieVerifica ==
    \E cant \in {0, 4, 6}, cel \in Locatii :
        /\ NrVerif(niruri) <= MaxVerif
        /\ api_nir_linie_verifica(1, 1, cant, cel)

NextE2E ==
    \/ E2ENirNou
    \/ E2ENirConfirma
    \/ E2ENirLinieVerifica

SpecE2E == Init /\ [][NextE2E]_vars

\* ------------------------------------------------------------ bank inputs
\* auto_match applied to one payment of 500.00 over a table of invoices;
\* amounts are in bani: 1000.00 and 500.00 RON
MaxFacturiMatch == 2
FacturiPosibile ==
    {Factura(tip, nr, cl, 0, 0, st, tot) :
        tip \in {"proforma", "fiscala"}, nr \in {1, 2}, cl \in DOMAIN Clienti,
        st \in {"emisa", "partial", "incasata", "anulata"}, tot \in {100000, 50000}}

IncasariPosibile ==
    {parse_bt_csv(<<Rand(1, d, r, <<"5","0","0",",","0","0">>)>>, <<>>)[1] :
        d \in Descrieri,
        r \in Referinte}

InitMatch ==
    /\ niruri = <<>>
    /\ stoc = EmptyBag
    /\ miscari = EmptyBag
    /\ comenzi = <<>>
    /\ pickings = <<>>
    /\ note_livrare = <<>>
    /\ facturi \in UNION {[1 .. k -> FacturiPosibile] : k \in 0 .. MaxFacturiMatch}
    \* the numbers of a tip are distinct (NextNr)
    /\ \A i, j \in DOMAIN facturi :
           i # j /\ facturi[i].tip = facturi[j].tip => facturi[i].numar # facturi[j].numar
    /\ \E inc \in IncasariPosibile : incasari = <<inc>>
    /\ lot = <<>>
    /\ potrivire = <<0, "">>
    /\ cereri = [w \in 1 .. MaxCereri |-> Liber]
    /\ csv = [rows |-> <<>>, parsed |-> FALSE, credit |-> Pret(0), transactions |-> <<>>]
    /\ raspuns = Raspuns("", 200, "")

AutoMatch ==
    /\ raspuns.op = ""
    /\ potrivire' = auto_match(facturi, incasari[1])
    /\ raspuns' = Raspuns("auto_match", 200, "")
    /\ UNCHANGED <<cereri, csv, niruri, stoc, miscari, pickVars, facturi, incasari, lot>>

NextMatch == AutoMatch

SpecMatch == InitMatch /\ [][NextMatch]_vars

\* parse_bt_csv applied to a file of one data row: the credit column holds
\* one of the texts of the _parse_amount docstring or any text of up to
\* MaxText characters over digits, separators, blank, sign and the letters
\* of 'nan'; the date column is empty (0) or a date
InitCsv ==
    /\ niruri = <<>>
    /\ stoc = EmptyBag
    /\ miscari = EmptyBag
    /\ comenzi = <<>>
    /\ pickings = <<>>
    /\ note_livrare = <<>>
    /\ facturi = <<>>
    /\ incasari = <<>>
    /\ lot = <<>>
    /\ potrivire = <<0, "">>
    /\ cereri = [w \in 1 .. MaxCereri |-> Liber]
    /\ \E data \in {0, 1},
          text \in {<<"1",".","2","3","4",",","5","6">>, <<"1","2","3","4",",","5","6">>,
                    <<"1","2","3","4",".","5","6">>}
                   \cup UNION {[1 .. k -> {"0", "1", ",", ".", " ", "-", "n", "a"}] :
                                  k \in 0 .. MaxText} :
          csv = [rows |-> <<Rand(data, DescNume, <<>>, text)>>, parsed |-> FALSE,
                 credit |-> Pret(0), transactions |-> <<>>]
    /\ raspuns = Raspuns("", 200, "")

NextCsv ==
    /\ ~csv.parsed
    /\ csv' = [csv EXCEPT !.parsed = TRUE,
                          !.credit = parse_amount(csv.rows[1].credit),
                          !.transactions = parse_bt_csv(csv.rows, <<>>)]
    /\ raspuns' = Raspuns("parse_bt_csv", 200, "")
    /\ UNCHANGED <<niruri, stoc, miscari, pickVars, bankVars, cereri>>

SpecCsv == InitCsv /\ [][NextCsv]_vars

\* the bank side: invoices are issued from offers and orders, statements are
\* imported, payments are linked by hand, ignored and matched again
MaxFacturi  == 2
MaxIncasari == 2

Randuri ==
    { Rand(1, DescNume, <<>>, <<"1",".","0","0","0",",","0","0">>),
      Rand(1, DescRef, <<>>, <<"5","0","0",".","0","0">>),
      Rand(0, DescNume, <<>>, <<"1",".","0","0","0",",","0","0">>),
      Rand(2, DescNume, <<>>, <<"1",".","0","0","0",",","0","0">>) }

\* issuing a proforma, confirming an invoice, converting the offer, invoicing
\* the order, importing a statement of one row, linking by hand, ignoring and
\* matching again
NextBank ==
    \/ \E curs \in BOOLEAN :
          /\ Len(facturi) < MaxFacturi
          /\ api_oferta_to_proforma(1, curs, 100000)
    \/ \E fid \in 1 .. MaxFacturi :
          /\ fid \in DOMAIN facturi
          /\ api_factura_status(fid, "confirmata")
    \/ \E oid \in DOMAIN Oferte :
          /\ Len(comenzi) < MaxComenzi
          /\ api_oferta_to_comanda(oid, <<>>)
    \/ \E cid \in 1 .. MaxComenzi, curs \in BOOLEAN :
          /\ Len(facturi) < MaxFacturi
          /\ api_comanda_to_factura(cid, curs, 100000)
    \/ \E are_fisier \in BOOLEAN, rows \in {<<r>> : r \in Randuri} :
          /\ Len(incasari) + Len(rows) <= MaxIncasari
          /\ api_incasari_import_csv(are_fisier, rows)
    \/ \E iid \in 1 .. MaxIncasari, factura_id \in 0 .. MaxFacturi :
          /\ iid \in DOMAIN incasari
          /\ api_incasari_reconciliaza(iid, factura_id)
    \/ \E iid \in 1 .. MaxIncasari :
          /\ iid \in DOMAIN incasari
          /\ api_incasari_ignora(iid)
    \/ api_incasari_rematch

SpecBank == Init /\ [][NextBank]_vars

\* ------------------------------------------------------------------ claims

\* C1: after any sequence of booking, verification, transfer and remap every
\* StocProdus row has cantitate >= 0.
C1_CantitateNenegativa ==
    \A r \in BagToSet(stoc) : r.cantitate >= 0

ToateComplete(nir) == \A i \in 1 .. Len(nir.linii) : verificat_complet(nir.linii[i])

\* C2: a NIR is 'verificat' only if every line has verified quantity >= its
\* expected quantity, and a booked NIR whose lines are all complete is not
\* left in 'in_verificare'.
C2_VerificatIffComplet ==
    \A n \in 1 .. Len(niruri) :
        /\ niruri[n].status = "verificat" => ToateComplete(niruri[n])
        /\ niruri[n].status = "in_verificare" => ~ToateComplete(niruri[n])

TotPreluat(pick) == \A i \in 1 .. Len(pick.linii) : pick.linii[i].preluata

\* C3: a Picking is 'complet' or 'livrat' only if every line is picked, and
\* a started Picking whose lines are all picked is not left 'in_pregatire'.
C3_CompletIffPreluat ==
    \A p \in 1 .. Len(pickings) :
        /\ pickings[p].status \in {"complet", "livrat"} => TotPreluat(pickings[p])
        /\ pickings[p].status = "in_pregatire" => ~TotPreluat(pickings[p])

\* C4: a Picking is 'livrat' only if a NotaLivrare exists for it.
C4_LivratAreNota ==
    \A p \in 1 .. Len(pickings) :
        pickings[p].status = "livrat" => NotaPicking(p) # {}

C4_Witness ==
    \E p \in 1 .. Len(pickings) :
        pickings[p].status = "livrat" /\ raspuns.op = "picking_nota_livrare"

\* C6: a transfer that asks for more than the source bucket holds, or from a
\* cell with no bucket of the code, is rejected: no stock row changes and no
\* movement is logged.
C6_TransferRespins ==
    [][\A cod \in Coduri, a \in Celule, b \in Celule, q \in 1 .. MaxCant :
          ( /\ raspuns'.op = "wms_transfer"
            /\ \/ ~HasStoc(stoc, cod, a)
               \/ StocFirst(stoc, cod, a).cantitate < q
            /\ api_wms_transfer(cod, a, b, q) )
          => /\ raspuns'.status = 400
             /\ stoc' = stoc
             /\ miscari' = miscari]_vars

C6_Witness ==
    /\ raspuns.op = "wms_transfer"
    /\ raspuns.error = "Stoc insuficient"
    /\ \E r \in BagToSet(stoc) : r.celula_id # NoCell

\* C7: NIR with one line of 10 at price 5: booking gives the no-cell bucket
\* 10 at cost 5; verifying 6 into cell 1 gives cell 1 6 at cost 5 and the
\* no-cell bucket 4, NIR still 'in_verificare'; verifying 4 more into cell 1
\* gives cell 1 10 at cost 5, no no-cell bucket, NIR 'verificat'.
C7_ScenariuReceptie ==
    Len(niruri) = 1 =>
        LET nir == niruri[1]
            v == nir.linii[1].verificari
            v6 == [cantitate |-> 6, celula_id |-> 1]
            v4 == [cantitate |-> 4, celula_id |-> 1]
        IN  /\ (nir.status = "in_verificare" /\ v = <<>>)
                => stoc = SetToBag({StocRow("X", NoCell, 10, Pret(5))})
            /\ v = <<v6>>
                => /\ stoc = SetToBag({StocRow("X", 1, 6, Pret(5)),
                                       StocRow("X", NoCell, 4, Pret(5))})
                   /\ nir.status = "in_verificare"
            /\ v = <<v6, v4>>
                => /\ stoc = SetToBag({StocRow("X", 1, 10, Pret(5))})
                   /\ nir.status = "verificat"

C7_Witness ==
    /\ Len(niruri) = 1
    /\ niruri[1].linii[1].verificari =
           <<[cantitate |-> 6, celula_id |-> 1], [cantitate |-> 4, celula_id |-> 1]>>
    /\ niruri[1].status = "verificat"

\* the bucket of cod at location cel after an inbound merge of q2 at cost c2
\* into what sb held there
MergeOK(sb, sa, cod, cel, q2, c2) ==
    LET are == HasStoc(sb, cod, cel)
        q1  == IF are THEN StocFirst(sb, cod, cel).cantitate ELSE 0
        c1  == IF are THEN StocFirst(sb, cod, cel).pret_achizitie_mediu ELSE Pret(0)
        r   == StocFirst(sa, cod, cel)
    IN  /\ HasStoc(sa, cod, cel)
        /\ r.cantitate = q1 + q2
        /\ q1 + q2 # 0 =>
             r.pret_achizitie_mediu.n * (c1.d * c2.d * (q1 + q2))
               = r.pret_achizitie_mediu.d * (q1 * c1.n * c2.d + q2 * c2.n * c1.d)
        /\ ~are => r.pret_achizitie_mediu = c2

\* C10: every inbound merge (booking into the no-cell bucket, verification
\* into a cell, transfer into a cell) of q2 at cost c2 into a bucket holding
\* q1 at cost c1 leaves quantity q1+q2 and cost (q1*c1+q2*c2)/(q1+q2), and
\* cost c2 when there was no bucket.  The quotient is compared by cross
\* multiplication, where q1+q2 is not 0.
C10_MedieNouaPonderata ==
    [][ /\ \A cod \in Coduri, a \in Celule, b \in Celule, q \in 1 .. MaxCant :
             (raspuns' = Raspuns("wms_transfer", 200, "") /\ api_wms_transfer(cod, a, b, q))
             => MergeOK(stoc, stoc', cod, b, q, StocFirst(stoc, cod, a).pret_achizitie_mediu)
        /\ \A nid \in 1 .. MaxNir, lid \in 1 .. MaxLinii, q \in 1 .. MaxCant, cel \in Celule :
             (raspuns' = Raspuns("nir_linie_verifica", 200, "")
                /\ api_nir_linie_verifica(nid, lid, q, cel))
             => MergeOK(stoc, stoc', niruri[nid].linii[lid].cod_intern, cel, q,
                        Pret(niruri[nid].linii[lid].pret_achizitie))
        /\ \A nid \in 1 .. MaxNir :
             (raspuns' = Raspuns("nir_confirma", 200, "") /\ api_nir_confirma(nid))
             => \A i \in 1 .. Len(niruri[nid].linii) :
                   LET linii == niruri[nid].linii
                   IN  MergeOK(ConfirmaStoc(stoc, SubSeq(linii, 1, i - 1), 1),
                               ConfirmaStoc(stoc, SubSeq(linii, 1, i), 1),
                               linii[i].cod_intern, NoCell, linii[i].cantitate,
                               Pret(linii[i].pret_achizitie)) ]_vars

C10_Witness ==
    \E r \in BagToSet(stoc) : r.pret_achizitie_mediu.d > 1

\* "the text contains the reference PF-n"
ContineRefPF(s, n) ==
    \E i \in 1 .. Len(s) : RefAt(s, i, 1) # <<>> /\ int(RefAt(s, i, 1)) = n
ProformaValida(F, inc, f) ==
    /\ F[f].tip = "proforma"
    /\ F[f].status \in NEPLATITE
    /\ Abs(F[f].total - inc.suma) < tolerance
    /\ ContineRefPF(TextIncasare(inc), F[f].numar)

\* C5: when the text of a payment contains a reference PF-n and an unpaid
\* proforma numbered n has the payment's amount (within tolerance), auto_match
\* returns that proforma with match type 'referinta', whatever the amount+name,
\* unique-amount or tax-id rules would select.
C5_ReferintaCastiga ==
    raspuns.op = "auto_match" =>
        \A f \in DOMAIN facturi :
            ProformaValida(facturi, incasari[1], f) => potrivire = <<f, "referinta">>

\* the invoices a payment of the given amount could settle
NeplatiteDeSuma(F, suma) ==
    {f \in DOMAIN F : F[f].status \in NEPLATITE /\ Abs(F[f].total - suma) < tolerance}
FaraReferinta(inc) ==
    \A pat \in 1 .. NrPatterns : RefFrom(TextIncasare(inc), 1, pat) = <<>>

\* C8: with one unpaid fiscal invoice of 1000.00 and no other unpaid invoice
\* of that amount, importing a payment of 1000.00 whose text carries no
\* invoice reference and whose payer name is the client's name completes,
\* leaves the payment 'automat' and linked to that invoice, and the invoice
\* 'incasata'.
C8_ScenariuIncasare ==
    [][ (/\ raspuns'.op = "incasari_import_csv"
         /\ Len(incasari') = Len(incasari) + 1
         /\ LET p == incasari'[Len(incasari')]
            IN  /\ p.suma = 100000
                /\ FaraReferinta(p)
                /\ \E f \in DOMAIN facturi :
                      /\ NeplatiteDeSuma(facturi, 100000) = {f}
                      /\ facturi[f].tip = "fiscala"
                      /\ facturi[f].total = 100000
                      /\ p.platitor_nume = Clienti[facturi[f].client_id].nume)
        => LET p == incasari'[Len(incasari')]
               f == CHOOSE g \in NeplatiteDeSuma(facturi, 100000) : TRUE
           IN  /\ raspuns'.status = 200
               /\ p.status = "automat"
               /\ p.factura_id = f
               /\ facturi'[f].status = "incasata" ]_vars

\* a step in which reconcile_batch ran
LotRulat ==
    \/ raspuns'.op = "incasari_rematch"
    \/ raspuns'.op = "incasari_import_csv" /\ Len(incasari') > Len(incasari)
AceeasiReconciliere(i) ==
    /\ incasari'[i].status = incasari[i].status
    /\ incasari'[i].factura_id = incasari[i].factura_id

\* C9: reconcile_batch iterates only over payments that are 'nereconciliat'
\* and changes no other payment; run a second time right after a run, it
\* leaves the status and the invoice link of every payment and the status of
\* every invoice as they were.
C9_LotIdempotent ==
    [][ LotRulat =>
          /\ \A i \in DOMAIN incasari :
                incasari[i].status # "nereconciliat" =>
                    i \notin Range(lot') /\ AceeasiReconciliere(i)
          /\ raspuns.op = "incasari_rematch" /\ raspuns'.op = "incasari_rematch" =>
                /\ \A i \in DOMAIN incasari : AceeasiReconciliere(i)
                /\ \A f \in DOMAIN facturi : facturi'[f].status = facturi[f].status ]_vars

\* a reconciled payment exists and a batch run has just iterated over
\* another, unreconciled one
C9_Witness ==
    /\ raspuns.op = "incasari_rematch"
    /\ lot # <<>>
    /\ \E i \in DOMAIN incasari : incasari[i].status \in {"manual", "automat"}

\* C11: an invoice is 'incasata' only if the payments linked to it with
\* status 'automat' or 'manual' sum to at least its total less 0.01
C11_IncasataAcoperita ==
    \A f \in DOMAIN facturi :
        facturi[f].status = "incasata"
            => SumaIncasari(incasari, f, 1) >= facturi[f].total - tolerance

\* C12: no stored StocProdus bucket has quantity 0
C12_FaraBucketZero ==
    \A r \in BagToSet(stoc) : r.cantitate # 0

\* C13: at most one StocProdus record per (product code, cell) pair, the
\* no-cell location included
C13_UnBucketPeLocatie ==
    \A cod \in Coduri, cel \in Locatii :
        Cardinality(StocRows(stoc, cod, cel)) <= 1
        /\ \A r \in StocRows(stoc, cod, cel) : CopiesIn(r, stoc) = 1

\* a receipt with two lines of the same code has been booked into one bucket
C13_Witness ==
    /\ raspuns.op = "nir_confirma" /\ raspuns.status = 200
    /\ \E n \in DOMAIN niruri :
          /\ Len(niruri[n].linii) = 2
          /\ niruri[n].linii[1].cod_intern = niruri[n].linii[2].cod_intern
          /\ Cardinality(StocRows(stoc, niruri[n].linii[1].cod_intern, NoCell)) = 1

\* the quantity of a code summed over the buckets rows of the table s
RECURSIVE SumaStoc(_, _)
SumaStoc(s, rows) ==
    IF rows = {} THEN 0
    ELSE LET r == CHOOSE x \in rows : TRUE
         IN  CopiesIn(r, s) * r.cantitate + SumaStoc(s, rows \ {r})

TotalCod(s, cod) == SumaStoc(s, {r \in BagToSet(s) : r.cod_intern = cod})

\* the step is a successful verification of quantity cant into cell cel
VerificaIn(cant, cel) ==
    /\ raspuns'.op = "nir_linie_verifica" /\ raspuns'.status = 200
    /\ \E n \in DOMAIN niruri, i \in 1 .. MaxLinii :
          /\ i \in DOMAIN niruri[n].linii
          /\ niruri'[n].linii[i].verificari =
                Append(niruri[n].linii[i].verificari, [cantitate |-> cant, celula_id |-> cel])

\* C14: a verification with a destination cell leaves the total quantity of
\* every code, summed over all buckets, as it was
C14_VerificareConserva ==
    [][\A cant \in Cantitati, cel \in Celule :
          VerificaIn(cant, cel) => \A cod \in Coduri : TotalCod(stoc', cod) = TotalCod(stoc, cod)]_vars

\* C15: a MiscareStoc entry, once created, is never modified or deleted
C15_RegistruNemodificat ==
    [][\A m \in BagToSet(miscari) : CopiesIn(m, miscari') >= CopiesIn(m, miscari)]_vars

RECURSIVE SumaMiscari(_, _)
SumaMiscari(m, rows) ==
    IF rows = {} THEN 0
    ELSE LET r == CHOOSE x \in rows : TRUE
         IN  CopiesIn(r, m) * r.cantitate + SumaMiscari(m, rows \ {r})

\* the quantity of cod the ledger accounts for: received minus picked
SoldRegistru(m, cod) ==
    SumaMiscari(m, {r \in BagToSet(m) : r.cod_produs = cod /\ r.tip = "intrare_nir"})
    - SumaMiscari(m, {r \in BagToSet(m) : r.cod_produs = cod /\ r.tip = "iesire_comanda"})

\* C16: when picking fulfilments on the same bucket interleave no update is
\* lost: once no request is in flight, the stored quantity of a code is the
\* quantity received minus the quantities of the fulfilments that reported
\* success (each logged one 'iesire_comanda' movement), and it is never
\* negative.
C16_FaraActualizarePierduta ==
    (\A w \in 1 .. MaxCereri : cereri[w].pc = "liber")
        => \A cod \in Coduri :
              /\ TotalCod(stoc, cod) = SoldRegistru(miscari, cod)
              /\ TotalCod(stoc, cod) >= 0

\* C17: in batch reconciliation each payment is its own unit of work: the
\* run has a commit for every payment whose processing ended without an
\* error, so what was recorded for an earlier payment is already persisted
\* when a later payment of the batch fails.
C17_UnitatePePlata ==
    [][ raspuns'.op = "incasari_rematch" =>
          \A r \in {reconcile_batch(facturi, [i \in DOMAIN incasari |-> Reparse(incasari[i])],
                                    comenzi, <<>>)} :
              r.commits >= Len(r.lot) - (IF r.exc THEN 1 ELSE 0) ]_vars

\* the pickings of an order that are neither cancelled nor delivered
PickingsActive(P, cid) ==
    {p \in 1 .. Len(P) : P[p].comanda_id = cid /\ P[p].status \notin {"anulat", "livrat"}}

\* C18: picking generation succeeds only when the order is 'confirmata',
\* 'productie' or 'gata' and has no picking other than 'anulat'/'livrat';
\* otherwise it is rejected and creates nothing, so after every request each
\* order has at most one active picking.
C18_UnPickingActiv ==
    [][ /\ \A cid \in 1 .. Len(comenzi') : Cardinality(PickingsActive(pickings', cid)) <= 1
        /\ raspuns'.op = "picking_genereaza" =>
              IF raspuns'.status = 200
              THEN /\ Len(pickings') = Len(pickings) + 1
                   /\ comenzi[pickings'[Len(pickings')].comanda_id].status
                          \in {"confirmata", "productie", "gata"}
                   /\ PickingsActive(pickings, pickings'[Len(pickings')].comanda_id) = {}
              ELSE pickings' = pickings ]_vars

\* a picking has just been generated for an order whose earlier picking was
\* delivered
C18_Witness ==
    /\ raspuns.op = "picking_genereaza" /\ raspuns.status = 200
    /\ \E p, q \in 1 .. Len(pickings) :
          /\ p # q /\ pickings[p].comanda_id = pickings[q].comanda_id
          /\ pickings[p].status = "livrat"
          /\ pickings[q].status \notin {"anulat", "livrat"}

\* the quantity stored for cod at cel, 0 when there is no bucket
CantitateIn(s, cod, cel) == SumaStoc(s, StocRows(s, cod, cel))

\* a step in which picking fulfilment marked line lid of picking pid
LiniePreluata(pid, lid) ==
    /\ raspuns'.op = "picking_linie_prelua" /\ raspuns'.status = 200
    /\ pid \in 1 .. Len(pickings) /\ lid \in 1 .. Len(pickings[pid].linii)
    /\ pickings'[pid].linii[lid].preluata
    /\ \A l \in 1 .. Len(pickings[pid].linii) :
          l # lid => pickings'[pid].linii[l] = pickings[pid].linii[l]

\* C19: whenever picking fulfilment marks a line as picked with quantity q
\* and cell c, the bucket of the line's code at cell c is decreased by
\* exactly q in the same operation and exactly one 'iesire_comanda' movement
\* of quantity q is appended; no line is marked picked without that.
C19_PreluareScadeStoc ==
    [][ \A pid \in 1 .. MaxPick, lid \in 1 .. 2 :
          LiniePreluata(pid, lid) =>
             \E lp \in {pickings'[pid].linii[lid]} :
                /\ lp.celula_efectiva_id # NoCell
                /\ CantitateIn(stoc', lp.cod_intern, lp.celula_efectiva_id)
                      = CantitateIn(stoc, lp.cod_intern, lp.celula_efectiva_id)
                        - lp.cantitate_preluata
                /\ miscari' = BagAdd(miscari,
                       Miscare("iesire_comanda", lp.cod_intern, lp.cantitate_preluata,
                               lp.celula_efectiva_id, NoCell, 0, pickings[pid].comanda_id)) ]_vars

\* the request is one the claim calls illegal or insufficient
PreluareIlegala(pid, lid, cant, celula) ==
    \/ pickings[pid].status # "in_pregatire"
    \/ cant <= 0
    \/ \E c \in {IF celula # NoCell THEN celula ELSE pickings[pid].linii[lid].celula_sursa_id} :
          /\ c # NoCell
          /\ CantitateIn(stoc, pickings[pid].linii[lid].cod_intern, c) < cant

\* C20: a picking fulfilment that is illegal (picking not 'in_pregatire',
\* quantity <= 0) or that asks for more than the bucket of the chosen cell
\* holds (a cell without a bucket of the code included) is rejected, and a
\* rejected fulfilment leaves the buckets, the lines, the picking status and
\* the movement ledger as they were.
C20_PreluareRespinsa ==
    [][ raspuns'.op = "picking_linie_prelua" =>
          /\ \A pid \in 1 .. MaxPick, lid \in 1 .. 2, cant \in Cantitati, celula \in Locatii :
                api_picking_linie_prelua(pid, lid, cant, celula)
                /\ PreluareIlegala(pid, lid, cant, celula)
                    => raspuns'.status = 400
          /\ raspuns'.status = 400
                => stoc' = stoc /\ pickings' = pickings /\ miscari' = miscari ]_vars

\* a started picking has just had a fulfilment rejected for lack of stock in
\* a cell that holds the code
C20_Witness ==
    /\ raspuns.op = "picking_linie_prelua" /\ raspuns.status = 400
    /\ raspuns.error = "Stoc insuficient in celula"
    /\ \E p \in 1 .. Len(pickings) :
          /\ pickings[p].status = "in_pregatire"
          /\ \E l \in 1 .. Len(pickings[p].linii) : ~pickings[p].linii[l].preluata

\* C21: an order in status 'pending' leaves that status only towards 'noua'
\* or 'anulat' and only by an administrator's status request; any other
\* target requested from 'pending' and any request by a non-administrator
\* is rejected, leaving the status as it was and the ledger untouched.
C21_PendingDoarAdmin ==
    [][ \A c \in 1 .. Len(comenzi) :
          comenzi[c].status = "pending" =>
             /\ comenzi'[c].status # "pending" =>
                   raspuns'.op = "comanda_status" /\ comenzi'[c].status \in {"noua", "anulat"}
             /\ \A st \in STATUSES_COMANDA \cup {"altceva"}, adm \in BOOLEAN :
                   api_comanda_status(c, st, adm) /\ (st \notin {"noua", "anulat"} \/ ~adm)
                       => comenzi' = comenzi /\ miscari' = miscari
                          /\ raspuns'.status \in {400, 403} ]_vars

\* C22: a payment that is matched ('automat'/'manual') or 'ignorat' is not
\* matched to an invoice or ignored again before it has been unlinked back
\* to 'nereconciliat': a request either leaves its status and its invoice
\* link as they were or unlinks it.
C22_FaraRetranzitie ==
    [][ \A i \in DOMAIN incasari :
          incasari[i].status \in {"automat", "manual", "ignorat"} =>
             \/ AceeasiReconciliere(i)
             \/ incasari'[i].status = "nereconciliat" ]_vars

\* the text is digits, one comma, digits
DoarVirgula(t) ==
    \E k \in 2 .. Len(t) - 1 :
        /\ t[k] = ","
        /\ \A i \in 1 .. Len(t) : i # k => t[i] \in CifreSet

\* C23: _parse_amount reads '1.234,56', '1234,56' and '1234.56' as 1234.56,
\* a lone comma as the decimal mark, and '0', empty or unparseable text as
\* 0.0; parse_bt_csv keeps a row only if its parsed credit is > 0.
C23_ParseAmount ==
    csv.parsed =>
       \A t \in {csv.rows[1].credit} :
          /\ t \in {<<"1",".","2","3","4",",","5","6">>, <<"1","2","3","4",",","5","6">>,
                    <<"1","2","3","4",".","5","6">>} => csv.credit = Frac(123456, 100)
          /\ DoarVirgula(t) =>
                csv.credit = Frac(int(SelectSeq(t, LAMBDA c : c # ",")),
                                  10 ^ (Len(t) - CHOOSE k \in 1 .. Len(t) : t[k] = ","))
          /\ (\A i \in 1 .. Len(t) : t[i] \notin CifreSet) \/ strip(t) = <<"0">>
                => csv.credit = Pret(0)
          /\ csv.transactions # <<>> => csv.credit.n > 0 /\ csv.credit.d > 0

\* the 'intrare_nir' movements the ledger holds for NIR nid
IntrariNir(nid) ==
    LET de(m) == m.tip = "intrare_nir" /\ m.nir_id = nid
    IN  BagCardinality([m \in {x \in BagToSet(miscari) : de(x)} |-> miscari[m]])

\* C24: booking a NIR succeeds only from 'draft' or 'scriptic' and leaves it
\* 'in_verificare'; a booking request on a NIR that is 'in_verificare' or
\* 'verificat' is rejected with niruri, stoc and miscari unchanged; hence the
\* ledger holds no receipt movement of a NIR not yet booked and exactly one per
\* line of a booked one, whatever requests were made
C24_ConfirmaOSingura ==
    /\ [](\A nid \in 1 .. Len(niruri) :
            IntrariNir(nid) = IF niruri[nid].status \in {"draft", "scriptic"} THEN 0
                              ELSE Len(niruri[nid].linii))
    /\ [][ raspuns'.op = "nir_confirma" =>
             \E nid \in 1 .. Len(niruri) :
                /\ api_nir_confirma(nid)
                /\ IF raspuns'.status = 200
                   THEN /\ niruri[nid].status \in {"draft", "scriptic"}
                        /\ niruri'[nid].status = "in_verificare"
                   ELSE /\ niruri[nid].status \in {"in_verificare", "verificat"}
                        /\ UNCHANGED <<niruri, stoc, miscari>> ]_vars

\* a booking request was rejected on a NIR whose lines are already in the ledger
C24_Witness ==
    /\ raspuns.op = "nir_confirma" /\ raspuns.status = 400
    /\ \E nid \in 1 .. Len(niruri) :
          /\ niruri[nid].status \in {"in_verificare", "verificat"}
          /\ Len(niruri[nid].linii) > 0
          /\ IntrariNir(nid) = Len(niruri[nid].linii)

\* C25: a verification request on a line whose NIR is not 'in_verificare', or
\* with a quantity <= 0, is rejected with no verification entry recorded, no
\* stock bucket changed and the NIR status unchanged; so verification entries
\* appear only by an accepted request on a NIR under verification, every entry
\* has a positive quantity and an unbooked NIR has none
C25_VerificareRespinsa ==
    /\ [](\A nid \in 1 .. Len(niruri) : \A lid \in 1 .. Len(niruri[nid].linii) :
            LET vs == niruri[nid].linii[lid].verificari
            IN  /\ \A k \in 1 .. Len(vs) : vs[k].cantitate > 0
                /\ niruri[nid].status \in {"draft", "scriptic"} => vs = <<>>)
    /\ [][ /\ \A nid \in 1 .. Len(niruri), lid \in 1 .. MaxLinii,
                 cant \in Cantitati \cup {-1}, cel \in Locatii :
                 /\ raspuns'.op = "nir_linie_verifica"
                 /\ api_nir_linie_verifica(nid, lid, cant, cel)
                 /\ niruri[nid].status # "in_verificare" \/ cant <= 0
                 => /\ raspuns'.status = 400
                    /\ UNCHANGED <<niruri, stoc, miscari>>
           /\ NrVerif(niruri') # NrVerif(niruri) =>
                 /\ raspuns' = Raspuns("nir_linie_verifica", 200, "")
                 /\ NrVerif(niruri') = NrVerif(niruri) + 1
                 /\ \E nid \in 1 .. Len(niruri) : niruri[nid].status = "in_verificare" ]_vars

\* a verification request was rejected because its NIR is not yet booked
C25_Witness ==
    /\ raspuns = Raspuns("nir_linie_verifica", 400, "NIR-ul nu este in verificare fizica")
    /\ \E nid \in 1 .. Len(niruri) :
          /\ niruri[nid].status = "scriptic"
          /\ niruri[nid].linii # <<>>
          /\ \A lid \in 1 .. Len(niruri[nid].linii) : niruri[nid].linii[lid].verificari = <<>>

\* the rows of s outside the buckets of cod in cells a and b, with their copies
AlteBucketuri(s, cod, a, b) ==
    [r \in {x \in BagToSet(s) : ~(x.cod_intern = cod /\ x.celula_id \in {a, b})} |-> s[r]]

\* C26: a successful transfer of q of code X from cell A to another cell B
\* lowers A's bucket by q, raises B's bucket by q (creating it if absent),
\* leaves every other bucket as it was, keeps the total of X and adds exactly
\* one 'transfer' movement to the ledger; a request with source = destination
\* is rejected with stock and ledger unchanged
C26_TransferConserva ==
    [][ raspuns'.op = "wms_transfer" =>
          \A cod \in Coduri, a \in Celule, b \in Celule, q \in Cantitati :
             api_wms_transfer(cod, a, b, q) =>
                IF raspuns'.status = 200
                THEN /\ a # b /\ q > 0
                     /\ CantitateIn(stoc', cod, a) = CantitateIn(stoc, cod, a) - q
                     /\ CantitateIn(stoc', cod, b) = CantitateIn(stoc, cod, b) + q
                     /\ HasStoc(stoc', cod, b)
                     /\ AlteBucketuri(stoc', cod, a, b) = AlteBucketuri(stoc, cod, a, b)
                     /\ TotalCod(stoc', cod) = TotalCod(stoc, cod)
                     /\ miscari' = BagAdd(miscari, Miscare("transfer", cod, q, a, b, 0, 0))
                ELSE /\ raspuns'.status = 400
                     /\ UNCHANGED <<stoc, miscari>> ]_vars

\* part of a bucket has been moved into a cell that had no bucket of the code
C26_Witness ==
    /\ raspuns.op = "wms_transfer" /\ raspuns.status = 200
    /\ \E m \in BagToSet(miscari) :
          /\ m.tip = "transfer"
          /\ HasStoc(stoc, m.cod_produs, m.celula_id)
          /\ CantitateIn(stoc, m.cod_produs, m.celula_destinatie_id) = m.cantitate

\* C27: delivery-note generation succeeds only for a picking that is 'complet'
\* and has no note; it then adds the note and sets the picking 'livrat' and its
\* order 'livrata'; any other request is rejected with pickings, orders and
\* notes unchanged; notes appear in no other way, so a picking never has more
\* than one
C27_NotaOSingura ==
    /\ [](\A pid \in 1 .. Len(pickings) : Cardinality(NotaPicking(pid)) <= 1)
    /\ [][ /\ raspuns'.op = "picking_nota_livrare" =>
                \E pid \in 1 .. Len(pickings) :
                   /\ api_picking_nota_livrare(pid)
                   /\ IF raspuns'.status = 200
                      THEN /\ pickings[pid].status = "complet"
                           /\ NotaPicking(pid) = {}
                           /\ note_livrare' = Append(note_livrare,
                                  [picking_id |-> pid, comanda_id |-> pickings[pid].comanda_id])
                           /\ pickings'[pid].status = "livrat"
                           /\ comenzi'[pickings[pid].comanda_id].status = "livrata"
                      ELSE /\ pickings[pid].status # "complet" \/ NotaPicking(pid) # {}
                           /\ UNCHANGED <<pickings, comenzi, note_livrare, stoc, miscari>>
           /\ note_livrare' # note_livrare =>
                 raspuns'.op = "picking_nota_livrare" /\ raspuns'.status = 200 ]_vars

\* a second request on a delivered picking was rejected and its note is still
\* the only one
C27_Witness ==
    /\ raspuns.op = "picking_nota_livrare" /\ raspuns.status = 400
    /\ \E pid \in 1 .. Len(pickings) :
          /\ pickings[pid].status = "livrat"
          /\ Cardinality(NotaPicking(pid)) = 1
          /\ comenzi[pickings[pid].comanda_id].status = "livrata"

\* C28: whichever rule fires, the invoice auto_match returns is unpaid
\* ('emisa', 'trimisa' or 'partial') and its total is within the tolerance of
\* the payment's amount; a paid or cancelled invoice or one of another amount
\* is never returned; with no unpaid invoice of the amount, and whenever no
\* rule gives a match type, the result is no match
C28_DoarNeplatiteDeSuma ==
    raspuns.op = "auto_match" =>
        /\ potrivire[1] # 0 =>
              /\ potrivire[1] \in DOMAIN facturi
              /\ facturi[potrivire[1]].status \in {"emisa", "trimisa", "partial"}
              /\ Abs(facturi[potrivire[1]].total - incasari[1].suma) < tolerance
              /\ potrivire[2] \in {"referinta", "suma_client", "suma_unica", "cui_suma"}
        /\ potrivire[1] = 0 => potrivire = <<0, "">>
        /\ (\A f \in DOMAIN facturi :
               \/ facturi[f].status \notin {"emisa", "trimisa", "partial"}
               \/ facturi[f].total # incasari[1].suma) => potrivire = <<0, "">>

\* a match was returned while a paid invoice of the payment's amount and an
\* unpaid invoice of another amount were in the table
C28_Witness ==
    /\ raspuns.op = "auto_match"
    /\ potrivire[1] # 0
    /\ \E f \in DOMAIN facturi :
          /\ f # potrivire[1]
          /\ facturi[f].status \in {"incasata", "anulata"}
          /\ facturi[f].total = incasari[1].suma

\* a tax id without its RO prefix
FaraPrefixRO(cui) == IF StartsWith(cui, <<"R","O">>) THEN From(cui, 3) ELSE cui

\* the unpaid invoices of the payment's amount: all of them, those whose
\* client name matches the payer's, those whose client tax id is the payer's
DeSuma == NeplatiteDeSuma(facturi, incasari[1].suma)
DeNume == {f \in DeSuma : NameMatch(facturi, incasari[1], f)}
DeCui ==
    {f \in DeSuma : /\ Clienti[facturi[f].client_id].cui # <<>>
                    /\ incasari[1].platitor_cui # <<>>
                    /\ FaraPrefixRO(Clienti[facturi[f].client_id].cui)
                          = FaraPrefixRO(incasari[1].platitor_cui)}

\* f comes no later than g in the order proforme first, then by id
Inainte(f, g) ==
    \/ facturi[f].tip = "proforma" /\ facturi[g].tip = "fiscala"
    \/ facturi[f].tip = facturi[g].tip /\ f <= g

\* C29: when the reference rule gives nothing, an amount+name match wins over
\* the unique-amount rule; the unique-amount rule matches exactly when no name
\* matches and one single unpaid invoice has the payment's amount; the tax-id
\* rule is consulted only when both fail and returns an unpaid invoice of the
\* amount whose client tax id, RO prefix stripped, is the payer's tax id
C29_OrdineaRegulilor ==
    raspuns.op = "auto_match"
       /\ MatchRef(facturi, TextIncasare(incasari[1]), incasari[1].suma, 1) = 0 =>
        /\ DeNume # {} =>
              /\ potrivire[2] = "suma_client"
              /\ potrivire[1] \in DeNume
              /\ \A g \in DeNume : Inainte(potrivire[1], g)
        /\ DeNume = {} /\ Cardinality(DeSuma) = 1 =>
              potrivire[2] = "suma_unica" /\ potrivire[1] \in DeSuma
        /\ DeNume = {} /\ Cardinality(DeSuma) # 1 =>
              IF DeCui # {}
              THEN /\ potrivire[2] = "cui_suma"
                   /\ potrivire[1] \in DeCui
                   /\ \A g \in DeCui : Inainte(potrivire[1], g)
              ELSE potrivire = <<0, "">>

\* the tax-id rule gave the match: two unpaid invoices have the amount and no
\* client name matches the payer
C29_Witness ==
    /\ raspuns.op = "auto_match"
    /\ potrivire[2] = "cui_suma"
    /\ Cardinality(DeSuma) = 2
    /\ DeNume = {}
    /\ potrivire[1] \in DeCui

\* the first reference that auto_match reads in the text, as <<tip, numar>>:
\* patterns 1 and 2 carry a PF / proforma marker, 3 and 4 an HSL / factura
\* marker (<<"", 0>> when the text has none of them)
RECURSIVE PrimaReferinta(_, _)
PrimaReferinta(text, pat) ==
    IF pat > 4 THEN <<"", 0>>
    ELSE IF re_search(pat, text) # <<>>
    THEN <<IF pat <= 2 THEN "proforma" ELSE "fiscala", int(re_search(pat, text))>>
    ELSE PrimaReferinta(text, pat + 1)

\* the text holds one single reference
SinguraReferinta(text) ==
    Cardinality({p \in (1 .. Len(text)) \X (1 .. NrPatterns) :
                    RefAt(text, p[1], p[2]) # <<>>}) = 1

\* f is an unpaid invoice of type tip and number numar with the payment's amount
FacturaReferita(f, tip, numar) ==
    /\ facturi[f].tip = tip
    /\ facturi[f].numar = numar
    /\ facturi[f].status \in {"emisa", "trimisa", "partial"}
    /\ Abs(facturi[f].total - incasari[1].suma) < tolerance

\* C30: the reference rule resolves the number read from the payment text to
\* an unpaid invoice of the type its marker implies (PF / proforma ->
\* proforma, HSL / factura -> fiscala) and accepts it only if its total is the
\* payment's amount within tolerance: a match by reference is an invoice of
\* the implied type with that number and amount, and such an invoice is
\* matched by reference even when an invoice of the other type has the number
C30_ReferintaDupaTip ==
    raspuns.op = "auto_match" /\ SinguraReferinta(TextIncasare(incasari[1])) =>
        \A r \in {PrimaReferinta(TextIncasare(incasari[1]), 1)} :
            r[2] # 0 =>
               /\ potrivire[2] = "referinta" => FacturaReferita(potrivire[1], r[1], r[2])
               /\ \A f \in DOMAIN facturi :
                     FacturaReferita(f, r[1], r[2]) => potrivire = <<f, "referinta">>

\* the amounts of the 'automat'/'manual' payments of I linked to invoice f,
\* payment p left out
SumaFara(I, f, p) ==
    SumaIncasari(I, f, 1)
       - (IF I[p].factura_id = f /\ I[p].status \in {"automat", "manual"} THEN I[p].suma ELSE 0)

\* C31: when a run of reconcile_batch matches payment p to invoice f (p is
\* the first payment of the run for which auto_match returns an invoice), the
\* run leaves f 'incasata' if the amounts of the 'automat'/'manual' payments
\* linked to f, p counted exactly once, reach f.total - 0.01, and 'partial'
\* otherwise
C31_StatusDupaSuma ==
    [][ LotRulat =>
          \A k \in DOMAIN lot' :
             \A m \in {auto_match(facturi, incasari'[lot'[k]])} :
                /\ m[1] # 0
                /\ \A j \in 1 .. k - 1 : auto_match(facturi, incasari'[lot'[j]])[1] = 0
                => facturi'[m[1]].status =
                      IF SumaFara(incasari', m[1], lot'[k]) + incasari'[lot'[k]].suma
                            >= facturi[m[1]].total - tolerance
                      THEN "incasata" ELSE "partial" ]_vars

\* the invoices one hop from invoice f: the proformas of the offer behind the
\* order of a fiscal invoice, the fiscal invoices of the orders made from the
\* offer of a proforma
Pereche(F, C, f) ==
    IF F[f].tip = "fiscala"
    THEN {g \in DOMAIN F : /\ F[g].tip = "proforma"
                           /\ F[f].comanda_id \in DOMAIN C
                           /\ C[F[f].comanda_id].oferta_id # 0
                           /\ F[g].oferta_id = C[F[f].comanda_id].oferta_id}
    ELSE {g \in DOMAIN F : /\ F[g].tip = "fiscala"
                           /\ F[f].oferta_id # 0
                           /\ F[g].comanda_id \in DOMAIN C
                           /\ C[F[g].comanda_id].oferta_id = F[f].oferta_id}

\* C32: when linking a payment makes invoice f paid, the proformas one hop
\* from a fiscal f that are not yet paid and not cancelled ('emisa',
\* 'trimisa', 'confirmata', 'partial') become 'incasata', the open fiscal
\* invoices ('emisa', 'trimisa') one hop from a proforma f become 'incasata',
\* no other invoice changes status and a cancelled invoice stays cancelled
C32_SincronizareUnPas ==
    [][ raspuns'.op = "incasari_reconciliaza" =>
          \A iid \in DOMAIN incasari, f \in DOMAIN facturi :
             api_incasari_reconciliaza(iid, f) /\ facturi'[f].status = "incasata" =>
                \A g \in DOMAIN facturi \ {f} :
                   /\ g \in Pereche(facturi, comenzi, f) /\ facturi[g].status \in
                         (IF facturi[g].tip = "proforma"
                          THEN {"emisa", "trimisa", "confirmata", "partial"}
                          ELSE {"emisa", "trimisa"})
                         => facturi'[g].status = "incasata"
                   /\ g \notin Pereche(facturi, comenzi, f)
                         => facturi'[g].status = facturi[g].status
                   /\ facturi[g].status = "anulata" => facturi'[g].status = "anulata" ]_vars

\* C33: after a remap of code old to another code new no stock bucket carries
\* old; at every location (each cell and the no-cell location) the quantity
\* of new is the sum of the quantities of old and new held there before; and
\* where both buckets existed new keeps one bucket with its average cost
\* unchanged, the bucket of old being removed
C33_RemapConserva ==
    [][ raspuns'.op = "wms_remap_cod" /\ raspuns'.status = 200 =>
          \A old \in Coduri, new \in Coduri :
             api_wms_remap_cod(old, new) =>
                /\ old # new
                /\ \A r \in BagToSet(stoc') : r.cod_intern # old
                /\ \A cel \in Locatii :
                      /\ CantitateIn(stoc', new, cel)
                            = CantitateIn(stoc, old, cel) + CantitateIn(stoc, new, cel)
                      /\ HasStoc(stoc, old, cel) /\ HasStoc(stoc, new, cel) =>
                            /\ Cardinality(StocRows(stoc', new, cel)) = 1
                            /\ CopiesIn(StocFirst(stoc', new, cel), stoc') = 1
                            /\ StocFirst(stoc', new, cel).pret_achizitie_mediu
                                  = StocFirst(stoc, new, cel).pret_achizitie_mediu ]_vars

\* a remap has merged the no-cell buckets of two codes booked at prices 1 and
\* 3: the bucket holds both quantities at the cost of one of them
C33_Witness ==
    /\ raspuns.op = "wms_remap_cod" /\ raspuns.status = 200
    /\ \E r \in BagToSet(stoc) :
          /\ r.celula_id = NoCell
          /\ r.cantitate = MaxCant + 1
          /\ r.pret_achizitie_mediu \in {Pret(1), Pret(3)}

\* the dedup keys of a sequence of payments or transactions
Chei(I) == {I[i].referinta_banca : i \in DOMAIN I}

\* C34: no two stored payments share a dedup key (referinta_banca); an import
\* skips every row whose key is already stored and stores the others, so
\* after it every key of the file is stored, and an import of a file whose
\* keys are all stored (the same statement imported again) adds no payment
C34_ImportIdempotent ==
    /\ [](\A i, j \in DOMAIN incasari :
             i # j => incasari[i].referinta_banca # incasari[j].referinta_banca)
    /\ [][ raspuns'.op = "incasari_import_csv" /\ csv'.parsed =>
             /\ Chei(csv'.transactions) \subseteq Chei(incasari')
             /\ Len(incasari') = Len(incasari)
                   + Cardinality(Chei(csv'.transactions) \ Chei(incasari))
             /\ \A i \in DOMAIN incasari : incasari'[i] = incasari[i]
             /\ Chei(csv'.transactions) \subseteq Chei(incasari) =>
                   incasari' = incasari /\ facturi' = facturi ]_vars

\* a statement has been imported again: its row was skipped as stored, so the
\* run answered 200 although the payment stored by the first import is still
\* unreconciled and an invoice matches it
C34_Witness ==
    /\ raspuns = Raspuns("incasari_import_csv", 200, "")
    /\ csv.transactions # <<>>
    /\ Len(incasari) = Len(csv.transactions)
    /\ \A k \in DOMAIN csv.transactions :
          /\ incasari[k].referinta_banca = csv.transactions[k].referinta_banca
          /\ incasari[k].status = "nereconciliat"
          /\ auto_match(facturi, incasari[k])[1] # 0

\* C35: a booking, verification, transfer or picking fulfilment that changes
\* the quantity held in some stock bucket appends at least one MiscareStoc
\* entry to the ledger
C35_MiscarePentruCantitate ==
    [][ /\ raspuns'.op \in {"nir_confirma", "nir_linie_verifica", "wms_transfer",
                            "picking_linie_prelua"}
        /\ \E cod \in Coduri, cel \in Locatii :
              CantitateIn(stoc', cod, cel) # CantitateIn(stoc, cod, cel)
        => BagCardinality(miscari') > BagCardinality(miscari) ]_vars

\* C36: a fulfilment request on a line that is already picked, made while its
\* picking is still 'in_pregatire', does not decrement stock again and does
\* not append another 'iesire_comanda' movement
C36_LiniePreluataOData ==
    [][ raspuns'.op = "picking_linie_prelua" =>
          \A pid \in 1 .. Len(pickings) : \A lid \in 1 .. Len(pickings[pid].linii) :
             /\ pickings[pid].status = "in_pregatire"
             /\ pickings[pid].linii[lid].preluata
             /\ \E cant \in Cantitati, cel \in Locatii :
                   api_picking_linie_prelua(pid, lid, cant, cel)
             => stoc' = stoc /\ miscari' = miscari ]_vars

\* C37: in every reachable state a payment that is 'nereconciliat' or
\* 'ignorat' has no invoice link and a payment that is 'automat' or 'manual'
\* has one
C37_StatusSiLegatura ==
    \A i \in DOMAIN incasari :
        /\ incasari[i].status \in {"nereconciliat", "ignorat"} => incasari[i].factura_id = 0
        /\ incasari[i].status \in {"automat", "manual"} => incasari[i].factura_id # 0

C39_DezlegareConsistenta ==
    [][ raspuns'.op = "incasari_reconciliaza" /\ raspuns'.status = 200 =>
          \A i \in DOMAIN incasari : \A f \in DOMAIN facturi :
              /\ incasari[i].factura_id = f
              /\ incasari'[i].factura_id = 0
              => /\ incasari'[i].status = "nereconciliat"
                 /\ incasari'[i].client_id = 0
                 /\ facturi'[f].status =
                       IF \A k \in DOMAIN incasari' :
                             ~(/\ incasari'[k].factura_id = f
                               /\ incasari'[k].status \in {"automat", "manual"})
                       THEN "emisa"
                       ELSE IF SumaIncasari(incasari', f, 1) >= facturi[f].total - tolerance
                       THEN "incasata"
                       ELSE "partial" ]_vars

====
